---- MODULE Spec2Model ----
(***************************************************************************)
(* Model of the nftables client of joyautomation/statocyst                 *)
(* (src/nftables/command.ts, src/nftables/types.ts, src/command.ts).       *)
(*                                                                         *)
(* JSON values are modelled as tagged records:                             *)
(*   [t |-> "str", s |-> text]      a string                               *)
(*   [t |-> "num", n |-> number]    a number                               *)
(*   [t |-> "null"]                 null                                   *)
(*   [t |-> "obj", fields |-> <<..., <<key, value>>, ...>>]                *)
(*        an object, its keys in insertion order (the order in which       *)
(*        JSON.stringify and JSON.parse enumerate them)                    *)
(*   [t |-> "arr", items |-> <<...>>]  an array                            *)
(***************************************************************************)
EXTENDS Integers, Sequences, FiniteSets, TLC

\* ------------------------------------------------------------------------
\* Bounds of the model
\* ------------------------------------------------------------------------

\* longest expression list of a rule drawn as an input of areRulesEqual
MaxExprLen == 2

\* most rules in the PREROUTING chain of the initial firewall
MaxRules == 3

\* largest handle of a rule in the PREROUTING chain of the initial firewall
MaxHandle == 3

\* ------------------------------------------------------------------------
\* JSON values
\* ------------------------------------------------------------------------

JStr(s) == [t |-> "str", s |-> s]

JNum(n) == [t |-> "num", n |-> n]

JNull == [t |-> "null"]

JObj(fields) == [t |-> "obj", fields |-> fields]

JArr(items) == [t |-> "arr", items |-> items]

\* `key in obj` of JavaScript
HasKey(v, key) ==
  /\ v.t = "obj"
  /\ \E i \in 1..Len(v.fields) : v.fields[i][1] = key

\* obj[key] for a key that is present
Get(v, key) ==
  LET i == CHOOSE j \in 1..Len(v.fields) : v.fields[j][1] = key
  IN v.fields[i][2]

\* JSON.stringify: the text of a value; object members are written in the
\* insertion order of their keys, array items in index order.
RECURSIVE JSONstringify(_)
RECURSIVE StringifyMembers(_)
RECURSIVE StringifyItems(_)
JSONstringify(v) ==
  CASE v.t = "str" -> "\"" \o v.s \o "\""
    [] v.t = "num" -> ToString(v.n)
    [] v.t = "null" -> "null"
    [] v.t = "obj" -> "{" \o StringifyMembers(v.fields) \o "}"
    [] v.t = "arr" -> "[" \o StringifyItems(v.items) \o "]"

StringifyMembers(fields) ==
  IF fields = <<>> THEN ""
  ELSE "\"" \o Head(fields)[1] \o "\":" \o JSONstringify(Head(fields)[2])
       \o (IF Tail(fields) = <<>> THEN "" ELSE "," \o StringifyMembers(Tail(fields)))

StringifyItems(items) ==
  IF items = <<>> THEN ""
  ELSE JSONstringify(Head(items))
       \o (IF Tail(items) = <<>> THEN "" ELSE "," \o StringifyItems(Tail(items)))

\* Deep structural (field-by-field value) equality of two JSON values:
\* objects are equal when they have the same keys with deeply equal values,
\* whatever the order of their keys; arrays are compared item by item, in order.
RECURSIVE DeepEqual(_, _)
DeepEqual(v, w) ==
  /\ v.t = w.t
  /\ CASE v.t = "str" -> v.s = w.s
       [] v.t = "num" -> v.n = w.n
       [] v.t = "null" -> TRUE
       [] v.t = "obj" ->
            /\ Len(v.fields) = Len(w.fields)
            /\ \A i \in 1..Len(v.fields) :
                 /\ HasKey(w, v.fields[i][1])
                 /\ DeepEqual(v.fields[i][2], Get(w, v.fields[i][1]))
       [] v.t = "arr" ->
            /\ Len(v.items) = Len(w.items)
            /\ \A i \in 1..Len(v.items) : DeepEqual(v.items[i], w.items[i])

\* ------------------------------------------------------------------------
\* Rules and expressions (src/nftables/types.ts)
\* ------------------------------------------------------------------------

\* { counter: { packets, bytes } }
CounterExpr(packets, bytes) ==
  JObj(<< <<"counter", JObj(<< <<"packets", JNum(packets)>>, <<"bytes", JNum(bytes)>> >>)>> >>)

\* { dnat: { addr, port } }, written with addr first
DnatAddrPort(addr, port) ==
  JObj(<< <<"dnat", JObj(<< <<"addr", JStr(addr)>>, <<"port", JNum(port)>> >>)>> >>)

\* { dnat: { port, addr } }: the same record, written with port first
DnatPortAddr(addr, port) ==
  JObj(<< <<"dnat", JObj(<< <<"port", JNum(port)>>, <<"addr", JStr(addr)>> >>)>> >>)

\* { dnat: { addr } }
DnatAddr(addr) == JObj(<< <<"dnat", JObj(<< <<"addr", JStr(addr)>> >>)>> >>)

\* { match: { op: "==", left: { payload: { protocol: "ip", field: "daddr" } }, right: addr } }
MatchDaddr(addr) ==
  JObj(<< <<"match",
            JObj(<< <<"op", JStr("==")>>,
                    <<"left", JObj(<< <<"payload",
                                        JObj(<< <<"protocol", JStr("ip")>>,
                                                <<"field", JStr("daddr")>> >>)>> >>)>>,
                    <<"right", JStr(addr)>> >>)>> >>)

\* { accept: null }
AcceptExpr == JObj(<< <<"accept", JNull>> >>)

\* NftRule
NftRule(family, table, chain, handle, expr) ==
  [family |-> family, table |-> table, chain |-> chain, handle |-> handle, expr |-> expr]

\* ------------------------------------------------------------------------
\* areRulesEqual (src/nftables/command.ts)
\* ------------------------------------------------------------------------

\* filterCounters with the filter left out: counters are compared too
filterCounters_keepAll(expr) == expr

filterCounters(expr) == SelectSeq(expr, LAMBDA e : ~HasKey(e, "counter"))

\* areRulesEqual that compares the comments too
areRulesEqual_withComment(rule1, rule2) ==
  IF \/ rule1.family # rule2.family
     \/ rule1.table # rule2.table
     \/ rule1.chain # rule2.chain
     \/ ("comment" \in DOMAIN rule1) # ("comment" \in DOMAIN rule2)
     \/ ("comment" \in DOMAIN rule1 /\ "comment" \in DOMAIN rule2
           /\ rule1.comment # rule2.comment)
  THEN FALSE
  ELSE LET expr1 == filterCounters(rule1.expr)
           expr2 == filterCounters(rule2.expr)
       IN IF Len(expr1) # Len(expr2)
          THEN FALSE
          ELSE JSONstringify(JArr(expr1)) = JSONstringify(JArr(expr2))

\* areRulesEqual without the comparison of the lengths: the expressions are
\* compared as far as the shorter list goes
areRulesEqual_upToShorter(rule1, rule2) ==
  IF \/ rule1.family # rule2.family
     \/ rule1.table # rule2.table
     \/ rule1.chain # rule2.chain
  THEN FALSE
  ELSE LET expr1 == filterCounters(rule1.expr)
           expr2 == filterCounters(rule2.expr)
           n == IF Len(expr1) < Len(expr2) THEN Len(expr1) ELSE Len(expr2)
       IN JSONstringify(JArr(SubSeq(expr1, 1, n))) = JSONstringify(JArr(SubSeq(expr2, 1, n)))

\* areRulesEqual that compares the handles too
areRulesEqual_withHandle(rule1, rule2) ==
  IF \/ rule1.family # rule2.family
     \/ rule1.table # rule2.table
     \/ rule1.chain # rule2.chain
     \/ rule1.handle # rule2.handle
  THEN FALSE
  ELSE LET expr1 == filterCounters(rule1.expr)
           expr2 == filterCounters(rule2.expr)
       IN IF Len(expr1) # Len(expr2)
          THEN FALSE
          ELSE JSONstringify(JArr(expr1)) = JSONstringify(JArr(expr2))

\* areRulesEqual without the comparison of the chain names
areRulesEqual_noChain(rule1, rule2) ==
  IF \/ rule1.family # rule2.family
     \/ rule1.table # rule2.table
  THEN FALSE
  ELSE LET expr1 == filterCounters(rule1.expr)
           expr2 == filterCounters(rule2.expr)
       IN IF Len(expr1) # Len(expr2)
          THEN FALSE
          ELSE JSONstringify(JArr(expr1)) = JSONstringify(JArr(expr2))

\* areRulesEqual that drops the counters of its first argument only
areRulesEqual_oneSided(rule1, rule2) ==
  IF \/ rule1.family # rule2.family
     \/ rule1.table # rule2.table
     \/ rule1.chain # rule2.chain
  THEN FALSE
  ELSE LET expr1 == filterCounters(rule1.expr)
           expr2 == rule2.expr
       IN IF Len(expr1) # Len(expr2)
          THEN FALSE
          ELSE JSONstringify(JArr(expr1)) = JSONstringify(JArr(expr2))

areRulesEqual(rule1, rule2) ==
  IF \/ rule1.family # rule2.family
     \/ rule1.table # rule2.table
     \/ rule1.chain # rule2.chain
  THEN FALSE
  ELSE LET expr1 == filterCounters(rule1.expr)
           expr2 == filterCounters(rule2.expr)
       IN IF Len(expr1) # Len(expr2)
          THEN FALSE
          ELSE JSONstringify(JArr(expr1)) = JSONstringify(JArr(expr2))

\* ------------------------------------------------------------------------
\* Inputs of the comparison
\* ------------------------------------------------------------------------

EqExprs ==
  { CounterExpr(0, 0), CounterExpr(1, 64),
    DnatAddrPort("10.0.0.5", 80), DnatPortAddr("10.0.0.5", 80),
    AcceptExpr }

EqExprLists == UNION { [1..n -> EqExprs] : n \in 0..MaxExprLen }

\* <<family, table, chain>>: a base location and one variant per field
EqLocs ==
  { <<"ip", "nat", "PREROUTING">>, <<"ip6", "nat", "PREROUTING">>,
    <<"ip", "filter", "PREROUTING">>, <<"ip", "nat", "POSTROUTING">> }

EqHandles == {1, 2}

EqRules ==
  { NftRule(l[1], l[2], l[3], h, e) : l \in EqLocs, h \in EqHandles, e \in EqExprLists }

\* ------------------------------------------------------------------------
\* State
\* ------------------------------------------------------------------------

VARIABLES
  ruleA, ruleB,   \* the two arguments of a call of areRulesEqual
  eqPc,           \* "start" before the call, "done" after it
  eqOut,          \* its results: ab = areRulesEqual(ruleA, ruleB), ba the converse
  fwTables,       \* the tables of the live firewall: a set of <<family, name>>
  fwChains,       \* its chains: <<family, table, name>> -> [def, rules], rules in listing order
  fwNextHandle,   \* the handle the engine gives to the next rule it stores
  nftInstalled,   \* whether the nft binary is on the host
  exProc,         \* the output of a process handed to the command executor
  exPc,           \* "start" before the executor has run on exProc, "done" after it
  exOut,          \* what the executor and the functions built on it made of exProc
  pc,             \* per caller: "off", "idle", "await" (commands in flight), "returned"
  op,             \* per caller: the operation being run and its arguments
  step,           \* per caller: the step of the operation's pipeline that is running
  cmds,           \* per caller: the commands of the running step, [argv, done, res]
  issued,         \* per caller: the argument vectors issued by the operation, in order
  ret,            \* per caller: the result the operation returned
  fwAtCall        \* per caller: the chains of the firewall when the operation was called

eqVars == <<ruleA, ruleB, eqPc, eqOut>>

exVars == <<exProc, exPc, exOut>>

fwVars == <<fwTables, fwChains, fwNextHandle, nftInstalled>>

callVars == <<pc, op, step, cmds, issued, ret, fwAtCall>>

vars == <<ruleA, ruleB, eqPc, eqOut, fwTables, fwChains, fwNextHandle, nftInstalled,
          exProc, exPc, exOut, pc, op, step, cmds, issued, ret, fwAtCall>>

Callers == {"c1", "c2"}

NoRule == NftRule("", "", "", 0, <<>>)

NoOp == [name |-> "", family |-> "", table |-> "", chain |-> "", rule |-> NoRule]

NoResult == [success |-> FALSE, error |-> ""]

\* a plain text written by a process
Text(s) == [text |-> s]

NoProc == [threw |-> TRUE, error |-> "", code |-> 0, stdout |-> Text(""), stderr |-> ""]

\* no process output is under study
ExIdle ==
  /\ exProc = NoProc
  /\ exPc = "done"
  /\ exOut = NoResult

\* the state of the callers before any call
CallersIdle(active) ==
  /\ pc = [c \in Callers |-> IF c \in active THEN "idle" ELSE "off"]
  /\ op = [c \in Callers |-> NoOp]
  /\ step = [c \in Callers |-> 0]
  /\ cmds = [c \in Callers |-> <<>>]
  /\ issued = [c \in Callers |-> <<>>]
  /\ ret = [c \in Callers |-> NoResult]
  /\ fwAtCall = [c \in Callers |-> << >>]

\* ------------------------------------------------------------------------
\* The comparison of two rules as a state machine
\* ------------------------------------------------------------------------

InitEq ==
  /\ ruleA \in EqRules
  /\ ruleB \in EqRules
  /\ eqPc = "start"
  /\ eqOut = [ab |-> FALSE, ba |-> FALSE]
  /\ fwTables = {}
  /\ fwChains = << >>
  /\ fwNextHandle = 1
  /\ nftInstalled = TRUE
  /\ ExIdle
  /\ CallersIdle({})

\* both calls areRulesEqual(ruleA, ruleB) and areRulesEqual(ruleB, ruleA)
CompareRules ==
  /\ eqPc = "start"
  /\ eqOut' = [ab |-> areRulesEqual(ruleA, ruleB), ba |-> areRulesEqual(ruleB, ruleA)]
  /\ eqPc' = "done"
  /\ UNCHANGED <<ruleA, ruleB>>
  /\ UNCHANGED exVars
  /\ UNCHANGED fwVars
  /\ UNCHANGED callVars

NextEq == CompareRules

SpecEq == InitEq /\ [][NextEq]_vars

\* ------------------------------------------------------------------------
\* Results and the command executor (src/command.ts)
\* ------------------------------------------------------------------------

createSuccess(output) == [success |-> TRUE, output |-> output]

createFail(error) == [success |-> FALSE, error |-> error]

isSuccess(result) == result.success

\* the text of an error: a string is its own text
createErrorString(error) == error

\* the value `undefined`
Undefined == [undefined |-> TRUE]

\* What running a process gives: either starting it threw, or it wrote
\* stdout and stderr.
ProcessThrew(error) ==
  [threw |-> TRUE, error |-> error, code |-> 0, stdout |-> Text(""), stderr |-> ""]

\* the process ran and exited with code, having written stdout and stderr
ProcessExited(code, stdout, stderr) ==
  [threw |-> FALSE, error |-> "", code |-> code, stdout |-> stdout, stderr |-> stderr]

\* the tools modelled exit with 0 exactly when they wrote no error
ProcessOutput(stdout, stderr) ==
  ProcessExited(IF stderr = "" THEN 0 ELSE 1, stdout, stderr)

\* the text of a JSON document that denotes value
JSONtext(value) == [json |-> value]

\* whether output is the text of a JSON document: JSON.parse throws a
\* SyntaxError on any other text, the empty text included
IsJSONText(output) == "json" \in DOMAIN output

\* JSON.parse of the text of a JSON document
JSONparse(output) == output.json

\* a promise that rejects: the exception error leaves the function instead of
\* a Result
Rejected(error) == [rejected |-> TRUE, error |-> error]

IsResult(value) == "success" \in DOMAIN value

\* runCommand that goes by the exit code instead of the error stream
runCommand_byExitCode(proc) ==
  IF proc.threw
  THEN createFail(createErrorString(proc.error))
  ELSE IF proc.code # 0
       THEN createFail(createErrorString(proc.stderr))
       ELSE createSuccess(proc.stdout)

runCommand(proc) ==
  IF proc.threw
  THEN createFail(createErrorString(proc.error))
  ELSE IF proc.stderr # ""
       THEN createFail(createErrorString(proc.stderr))
       ELSE createSuccess(proc.stdout)

\* whether the processor throws on output
processorThrows(processor, output) ==
  processor = "JSON.parse" /\ ~IsJSONText(output)

\* the processors passed to runCommandAndProcessOutput: none (the default,
\* which returns the output as it is), JSON.parse, or isNftInstalled's
\* (output) => output !== ""
applyProcessor(processor, output) ==
  CASE processor = "JSON.parse" -> JSONparse(output)
    [] processor = "isNftInstalled" -> output # Text("")
    [] OTHER -> output

\* The processor runs in the callback of pipeAsync, outside the try block of
\* runCommand: an exception it throws rejects the promise.
runCommandAndProcessOutput(processor, proc) ==
  LET result == runCommand(proc)
  IN IF isSuccess(result)
     THEN IF processorThrows(processor, result.output)
          THEN Rejected("SyntaxError: Unexpected token")
          ELSE createSuccess(applyProcessor(processor, result.output))
     ELSE result

\* ------------------------------------------------------------------------
\* Argument vectors of the primitive commands (src/nftables/command.ts)
\* ------------------------------------------------------------------------

\* String.prototype.toUpperCase on the chain names in use
toUpperCase(name) ==
  CASE name = "prerouting" -> "PREROUTING"
    [] name = "input" -> "INPUT"
    [] name = "forward" -> "FORWARD"
    [] name = "output" -> "OUTPUT"
    [] name = "postrouting" -> "POSTROUTING"
    [] OTHER -> name

\* createNfTable: sudo nft -j add table <family> <table>
createNfTable(family, table) ==
  <<"sudo", "nft", "-j", "add", "table", family, table>>

\* createNfTableChain: sudo nft -j add chain <family> <table> <CHAIN>
\*   { type <type> hook <hook> priority <priority>; policy accept; }
createNfTableChain(family, table, chain, type, hook, priority) ==
  <<"sudo", "nft", "-j", "add", "chain", family, table, toUpperCase(chain),
    "{ type " \o type \o " hook " \o hook \o " priority " \o ToString(priority)
      \o "; policy accept; }">>

\* getChain: sudo nft -j list chain <family> <table> <chain>
getChainArgv(family, tableName, chainName) ==
  <<"sudo", "nft", "-j", "list", "chain", family, tableName, chainName>>

\* deleteRuleByHandle: sudo nft -j delete rule <family> <table> <chain> handle <handle>
deleteRuleByHandleArgv(family, table, chain, handle) ==
  <<"sudo", "nft", "-j", "delete", "rule", family, table, chain, "handle", ToString(handle)>>

\* isNftInstalled: which nft
isNftInstalledArgv == <<"which", "nft">>

\* installNft: sudo apt-get install nftables -y
installNftArgv == <<"sudo", "apt-get", "install", "nftables", "-y">>

\* the processor of a command: the list commands parse their output, and
\* isNftInstalled tests the output of `which`
processorOf(argv) ==
  IF argv[1] = "which" THEN "isNftInstalled"
  ELSE IF Len(argv) >= 4 /\ argv[4] = "list" THEN "JSON.parse"
  ELSE "default"

\* ------------------------------------------------------------------------
\* The nft tool and the live firewall (external)
\* ------------------------------------------------------------------------

RECURSIVE CmdText(_)
CmdText(argv) ==
  IF argv = <<>> THEN ""
  ELSE IF Tail(argv) = <<>> THEN Head(argv)
  ELSE Head(argv) \o " " \o CmdText(Tail(argv))

\* what `nft -j list chain` prints: metainfo, the chain, then its rules in order
ChainListing(loc, chain) ==
  [nftables |->
     << [metainfo |-> [json_schema_version |-> 1]],
        [chain |-> [family |-> loc[1], table |-> loc[2], name |-> loc[3], handle |-> 1]] >>
     \o [i \in 1..Len(chain.rules) |-> [rule |-> chain.rules[i]]]]

\* the tables and the chains in the order the engine lists them
TableOrder == <<"nat", "filter", "mangle">>

ChainOrder == <<"PREROUTING", "INPUT", "FORWARD", "OUTPUT", "POSTROUTING">>

ChainEntries(loc, chain) ==
  << [chain |-> [family |-> loc[1], table |-> loc[2], name |-> loc[3], handle |-> 1]] >>
  \o [i \in 1..Len(chain.rules) |-> [rule |-> chain.rules[i]]]

RECURSIVE ChainsEntries(_, _, _, _)
ChainsEntries(family, table, names, chains) ==
  IF names = <<>> THEN <<>>
  ELSE LET loc == <<family, table, Head(names)>>
       IN (IF loc \in DOMAIN chains THEN ChainEntries(loc, chains[loc]) ELSE <<>>)
          \o ChainsEntries(family, table, Tail(names), chains)

\* what `nft -j list table` prints: metainfo, the table, then each chain
\* followed by its rules
TableListing(family, table, chains) ==
  [nftables |->
     << [metainfo |-> [json_schema_version |-> 1]],
        [table |-> [family |-> family, name |-> table, handle |-> 1]] >>
     \o ChainsEntries(family, table, ChainOrder, chains)]

\* what `nft -j list tables` prints: metainfo and the tables, nothing of
\* their chains and rules
TablesListing(tables) ==
  [nftables |->
     << [metainfo |-> [json_schema_version |-> 1]] >>
     \o [i \in 1..Len(SelectSeq(TableOrder, LAMBDA t : <<"ip", t>> \in tables)) |->
           [table |-> [family |-> "ip",
                       name |-> SelectSeq(TableOrder, LAMBDA t : <<"ip", t>> \in tables)[i],
                       handle |-> 1]]]]

\* the addresses in use
Addrs == {"127.0.0.1", "10.0.0.5"}

\* the comments in use; "" is no comment
Comments == {"", "web"}

\* the text of the rule of createDnatRule
dnatRuleText(sourceAddr, destAddr, comment) ==
  "ip daddr " \o sourceAddr \o " counter dnat to " \o destAddr
    \o (IF comment # "" THEN " # " \o comment ELSE "")

\* the text of the rule of createSnatRule
snatRuleText(sourceAddr, destAddr, comment) ==
  "ip saddr " \o sourceAddr \o " counter snat to " \o destAddr
    \o (IF comment # "" THEN " # " \o comment ELSE "")

\* { match: { op: "==", left: { payload: { protocol: "ip", field: "saddr" } }, right: addr } }
MatchSaddr(addr) ==
  JObj(<< <<"match",
            JObj(<< <<"op", JStr("==")>>,
                    <<"left", JObj(<< <<"payload",
                                        JObj(<< <<"protocol", JStr("ip")>>,
                                                <<"field", JStr("saddr")>> >>)>> >>)>>,
                    <<"right", JStr(addr)>> >>)>> >>)

\* { snat: { addr } }
SnatAddr(addr) == JObj(<< <<"snat", JObj(<< <<"addr", JStr(addr)>> >>)>> >>)

\* The expressions the engine stores for a rule text, <<>> for a text it does
\* not accept. A new counter starts at zero; `#` starts a comment of the
\* command line, which the engine drops.
RuleExprOf(text) ==
  IF \E a, b \in Addrs, cm \in Comments : text = dnatRuleText(a, b, cm)
  THEN LET ab == CHOOSE ab \in Addrs \X Addrs :
                   \E cm \in Comments : text = dnatRuleText(ab[1], ab[2], cm)
       IN <<MatchDaddr(ab[1]), CounterExpr(0, 0), DnatAddr(ab[2])>>
  ELSE IF \E a, b \in Addrs, cm \in Comments : text = snatRuleText(a, b, cm)
  THEN LET ab == CHOOSE ab \in Addrs \X Addrs :
                   \E cm \in Comments : text = snatRuleText(ab[1], ab[2], cm)
       IN <<MatchSaddr(ab[1]), CounterExpr(0, 0), SnatAddr(ab[2])>>
  ELSE IF text = "counter accept"
  THEN <<CounterExpr(0, 0), AcceptExpr>>
  ELSE <<>>

\* the tool run on the firewall <<tables, chains>> whose next free rule
\* handle is handle: the firewall it leaves and what it prints
NftTool(argv, tables, chains, handle) ==
  LET verb == argv[4]
      kind == argv[5]
      loc == <<argv[6], argv[7], argv[8]>>
      same(stdout) == [tables |-> tables, chains |-> chains, handle |-> handle,
                       stdout |-> stdout, stderr |-> ""]
      fail == [tables |-> tables, chains |-> chains, handle |-> handle, stdout |-> Text(""),
               stderr |-> "Error: No such file or directory: " \o CmdText(argv)]
  IN CASE verb = "list" /\ kind = "chain" ->
            IF loc \in DOMAIN chains
            THEN same(JSONtext(ChainListing(loc, chains[loc])))
            ELSE fail
       [] verb = "list" /\ kind = "table" ->
            IF <<argv[6], argv[7]>> \in tables
            THEN same(JSONtext(TableListing(argv[6], argv[7], chains)))
            ELSE fail
       [] verb = "list" /\ kind = "tables" ->
            same(JSONtext(TablesListing(tables)))
       [] verb = "delete" /\ kind = "rule" ->
            IF /\ loc \in DOMAIN chains
               /\ \E i \in 1..Len(chains[loc].rules) : ToString(chains[loc].rules[i].handle) = argv[10]
            THEN [tables |-> tables,
                  chains |-> [chains EXCEPT ![loc].rules =
                                SelectSeq(@, LAMBDA r : ToString(r.handle) # argv[10])],
                  handle |-> handle,
                  stdout |-> Text(""), stderr |-> ""]
            ELSE fail
       [] verb = "add" /\ kind = "rule" ->
            IF loc \in DOMAIN chains /\ RuleExprOf(argv[9]) # <<>>
            THEN [tables |-> tables,
                  chains |-> [chains EXCEPT ![loc].rules =
                                Append(@, NftRule(loc[1], loc[2], loc[3], handle,
                                                  RuleExprOf(argv[9])))],
                  handle |-> handle + 1,
                  stdout |-> Text(""), stderr |-> ""]
            ELSE fail
       [] verb = "add" /\ kind = "table" ->
            [tables |-> tables \cup {<<argv[6], argv[7]>>}, chains |-> chains,
             handle |-> handle,
             stdout |-> Text(""), stderr |-> ""]
       [] verb = "add" /\ kind = "chain" ->
            IF <<argv[6], argv[7]>> \notin tables
            THEN fail
            ELSE IF loc \in DOMAIN chains
            THEN same(Text(""))
            ELSE [tables |-> tables,
                  chains |-> chains @@ (loc :> [def |-> argv[9], rules |-> <<>>]),
                  handle |-> handle,
                  stdout |-> Text(""), stderr |-> ""]
       [] OTHER -> fail

\* How a command can go: the tool runs ("run"), the tool is refused before it
\* touches the firewall and writes to stderr ("stderr"), or the process
\* cannot be started and cmd.output() throws ("throw").
Outcomes == {"run", "stderr", "throw"}

\* the command line is one of the nft tool
IsNftCommand(argv) == Len(argv) >= 2 /\ argv[1] = "sudo" /\ argv[2] = "nft"

\* the host after the command (its firewall, its next rule handle, whether
\* nft is installed) and the output of the command's process
Execute(argv, outcome, tables, chains, handle, installed) ==
  LET same(proc) == [tables |-> tables, chains |-> chains, handle |-> handle,
                     installed |-> installed, proc |-> proc]
  IN CASE outcome = "throw" ->
            same(ProcessThrew("NotFound: Failed to spawn: " \o CmdText(argv)))
       [] outcome = "stderr" ->
            same(ProcessOutput(Text(""), "Error: Operation not permitted: " \o CmdText(argv)))
       [] outcome = "run" /\ argv[1] = "which" ->
            \* `which` prints the path of the binary, or nothing and exits with 1
            same(ProcessExited(IF installed THEN 0 ELSE 1,
                               IF installed THEN Text("/usr/sbin/nft") ELSE Text(""), ""))
       [] outcome = "run" /\ argv[1] = "sudo" /\ argv[2] = "apt-get" ->
            [tables |-> tables, chains |-> chains, handle |-> handle, installed |-> TRUE,
             proc |-> ProcessOutput(Text("Setting up nftables"), "")]
       [] outcome = "run" /\ IsNftCommand(argv) /\ ~installed ->
            same(ProcessOutput(Text(""), "sudo: nft: command not found"))
       [] outcome = "run" /\ IsNftCommand(argv) /\ installed ->
            LET out == NftTool(argv, tables, chains, handle)
            IN [tables |-> out.tables, chains |-> out.chains, handle |-> out.handle,
                installed |-> installed,
                proc |-> ProcessOutput(out.stdout, out.stderr)]

\* ------------------------------------------------------------------------
\* Steps common to all operations
\* ------------------------------------------------------------------------

\* the commands argvs are started, in this order
Issue(c, argvs) ==
  /\ cmds' = [cmds EXCEPT ![c] =
                [i \in 1..Len(argvs) |-> [argv |-> argvs[i], done |-> FALSE, res |-> NoResult]]]
  /\ issued' = [issued EXCEPT ![c] = @ \o argvs]

\* the operation of caller c is called: its first step starts
Call(c, o, argvs) ==
  /\ pc[c] = "idle"
  /\ pc' = [pc EXCEPT ![c] = "await"]
  /\ op' = [op EXCEPT ![c] = o]
  /\ step' = [step EXCEPT ![c] = 1]
  /\ cmds' = [cmds EXCEPT ![c] =
                [i \in 1..Len(argvs) |-> [argv |-> argvs[i], done |-> FALSE, res |-> NoResult]]]
  /\ issued' = [issued EXCEPT ![c] = argvs]
  /\ ret' = [ret EXCEPT ![c] = NoResult]
  /\ fwAtCall' = [fwAtCall EXCEPT ![c] = fwChains]
  /\ UNCHANGED fwVars

\* the operation of caller c returns result
Return(c, result) ==
  /\ pc' = [pc EXCEPT ![c] = "returned"]
  /\ ret' = [ret EXCEPT ![c] = result]
  /\ UNCHANGED <<op, step, cmds, issued, fwAtCall>>
  /\ UNCHANGED fwVars

\* the step of caller c is running and all its commands have completed
StepDone(c, name, n) ==
  /\ pc[c] = "await"
  /\ op[c].name = name
  /\ step[c] = n
  /\ \A i \in 1..Len(cmds[c]) : cmds[c][i].done

\* One of the commands in flight runs to completion: runCommandAndProcessOutput
\* gets the output of its process.
CommandCompletes(c, i, outcome) ==
  /\ pc[c] = "await"
  /\ i \in 1..Len(cmds[c])
  /\ ~cmds[c][i].done
  /\ LET argv == cmds[c][i].argv
         out == Execute(argv, outcome, fwTables, fwChains, fwNextHandle, nftInstalled)
     IN /\ fwTables' = out.tables
        /\ fwChains' = out.chains
        /\ fwNextHandle' = out.handle
        /\ nftInstalled' = out.installed
        /\ cmds' = [cmds EXCEPT ![c][i] =
                      [argv |-> argv, done |-> TRUE,
                       res |-> runCommandAndProcessOutput(processorOf(argv), out.proc)]]
  /\ UNCHANGED <<pc, op, step, issued, ret, fwAtCall>>
  /\ UNCHANGED eqVars
  /\ UNCHANGED exVars

\* the caller takes the result and may call again
Reset(c) ==
  /\ pc[c] = "returned"
  /\ pc' = [pc EXCEPT ![c] = "idle"]
  /\ op' = [op EXCEPT ![c] = NoOp]
  /\ step' = [step EXCEPT ![c] = 0]
  /\ cmds' = [cmds EXCEPT ![c] = <<>>]
  /\ issued' = [issued EXCEPT ![c] = <<>>]
  /\ ret' = [ret EXCEPT ![c] = NoResult]
  /\ fwAtCall' = [fwAtCall EXCEPT ![c] = << >>]
  /\ UNCHANGED fwVars
  /\ UNCHANGED eqVars
  /\ UNCHANGED exVars

\* the operations that are one call of runCommandAndProcessOutput
SingleCommandOps ==
  {"createRule", "createDnatRule", "createSnatRule", "deleteRuleByHandle",
   "getTables", "getTable", "getChain", "isNftInstalled", "installNft"}

\* the command of a one-command operation has completed: its result is the
\* result of the operation
SingleCommandDone(c) ==
  /\ pc[c] = "await"
  /\ op[c].name \in SingleCommandOps
  /\ step[c] = 1
  /\ cmds[c][1].done
  /\ Return(c, cmds[c][1].res)
  /\ UNCHANGED eqVars
  /\ UNCHANGED exVars

\* ------------------------------------------------------------------------
\* Queries and deletions (src/nftables/command.ts)
\* ------------------------------------------------------------------------

isNftRule(value) ==
  {"family", "table", "chain", "handle", "expr"} \subseteq DOMAIN value

isNftableEntryRule(entry) ==
  "rule" \in DOMAIN entry /\ isNftRule(entry.rule)

\* Array.prototype.map(entry => entry.rule)
MapRule(entries) == [i \in 1..Len(entries) |-> entries[i].rule]

\* the second step of getRulesFromChain, on the result of getChain; a failed
\* getChain ends the pipeline with its failure
getRulesFromChain(chainResult) ==
  IF ~isSuccess(chainResult)
  THEN chainResult
  ELSE createSuccess(
         MapRule(SelectSeq(chainResult.output.nftables,
                           LAMBDA entry : "rule" \in DOMAIN entry /\ isNftableEntryRule(entry))))

\* Array.prototype.find: of the items that pass its test, in order, the first,
\* or undefined when none passes
FindFirst(passing) ==
  IF passing = <<>> THEN Undefined ELSE Head(passing)

OpOn(name, family, table, chain, rule) ==
  [name |-> name, family |-> family, table |-> table, chain |-> chain, rule |-> rule]

\* getRulesFromChain(family, tableName, chainName) is called
CallGetRulesFromChain(c, family, table, chain) ==
  /\ Call(c, OpOn("getRulesFromChain", family, table, chain, NoRule),
          <<getChainArgv(family, table, chain)>>)
  /\ UNCHANGED eqVars
  /\ UNCHANGED exVars

GetRulesFromChainListed(c) ==
  /\ StepDone(c, "getRulesFromChain", 1)
  /\ Return(c, getRulesFromChain(cmds[c][1].res))
  /\ UNCHANGED eqVars
  /\ UNCHANGED exVars

\* getRuleFromChain(family, table, chain, ruleEntry) is called
CallGetRuleFromChain(c, family, table, chain, ruleEntry) ==
  /\ Call(c, OpOn("getRuleFromChain", family, table, chain, ruleEntry),
          <<getChainArgv(family, table, chain)>>)
  /\ UNCHANGED eqVars
  /\ UNCHANGED exVars

\* getRuleFromChainFind that keeps the last match instead of the first
getRuleFromChainFind_last(result, ruleEntry) ==
  LET passing == SelectSeq(result, LAMBDA entry : areRulesEqual(entry, ruleEntry))
  IN IF passing # <<>>
     THEN createSuccess(passing[Len(passing)])
     ELSE createFail("Rule not found")

\* the second step of getRuleFromChain
getRuleFromChainFind(result, ruleEntry) ==
  LET rule == FindFirst(SelectSeq(result, LAMBDA entry : areRulesEqual(entry, ruleEntry)))
  IN IF rule # Undefined
     THEN createSuccess(rule)
     ELSE createFail("Rule not found")

GetRuleFromChainListed(c) ==
  /\ StepDone(c, "getRuleFromChain", 1)
  /\ LET result == getRulesFromChain(cmds[c][1].res)
     IN IF ~isSuccess(result)
        THEN Return(c, result)
        ELSE Return(c, getRuleFromChainFind(result.output, op[c].rule))
  /\ UNCHANGED eqVars
  /\ UNCHANGED exVars

\* deleteAllMatchingRulesFromChain(family, table, chain, rule) is called
CallDeleteAllMatchingRulesFromChain(c, family, table, chain, rule) ==
  /\ Call(c, OpOn("deleteAllMatchingRulesFromChain", family, table, chain, rule),
          <<getChainArgv(family, table, chain)>>)
  /\ UNCHANGED eqVars
  /\ UNCHANGED exVars

\* matchingRules that takes every listed rule, equal to the specification or not
matchingRulesOf_everyRule(result, rule) == result

\* matchingRules that does not compare the chain of the specification
matchingRulesOf_anyChain(result, rule) ==
  SelectSeq(result, LAMBDA entry : areRulesEqual_noChain(entry, rule))

\* matchingRules cut down to the first match
matchingRulesOf_firstOnly(result, rule) ==
  LET all == SelectSeq(result, LAMBDA entry : areRulesEqual(entry, rule))
  IN IF all = <<>> THEN <<>> ELSE <<Head(all)>>

\* matchingRules of deleteAllMatchingRulesFromChain
matchingRulesOf(result, rule) ==
  SelectSeq(result, LAMBDA entry : areRulesEqual(entry, rule))

\* DeleteAllListed without the test for an empty matchingRules
DeleteAllListed_noEmptyTest(c) ==
  /\ StepDone(c, "deleteAllMatchingRulesFromChain", 1)
  /\ LET result == getRulesFromChain(cmds[c][1].res)
     IN IF ~isSuccess(result)
        THEN Return(c, result)
        ELSE LET matchingRules == matchingRulesOf(result.output, op[c].rule)
             IN /\ Issue(c, [i \in 1..Len(matchingRules) |->
                               deleteRuleByHandleArgv(op[c].family, op[c].table,
                                                      op[c].chain, matchingRules[i].handle)])
                /\ step' = [step EXCEPT ![c] = 2]
                /\ UNCHANGED <<pc, op, ret, fwAtCall>>
                /\ UNCHANGED fwVars
  /\ UNCHANGED eqVars
  /\ UNCHANGED exVars

\* The listing has completed: the matching rules are selected and all their
\* deletions are started at once, in the order of the listing.
DeleteAllListed(c) ==
  /\ StepDone(c, "deleteAllMatchingRulesFromChain", 1)
  /\ LET result == getRulesFromChain(cmds[c][1].res)
     IN IF ~isSuccess(result)
        THEN Return(c, result)
        ELSE LET matchingRules == matchingRulesOf(result.output, op[c].rule)
             IN IF Len(matchingRules) = 0
                THEN Return(c, createFail("No matching rules found"))
                ELSE /\ Issue(c, [i \in 1..Len(matchingRules) |->
                                    deleteRuleByHandleArgv(op[c].family, op[c].table,
                                                           op[c].chain, matchingRules[i].handle)])
                     /\ step' = [step EXCEPT ![c] = 2]
                     /\ UNCHANGED <<pc, op, ret, fwAtCall>>
                     /\ UNCHANGED fwVars
  /\ UNCHANGED eqVars
  /\ UNCHANGED exVars

\* deleteAllResult that returns the last failure instead of the first
deleteAllResult_lastFailure(deleteResults) ==
  LET failures == SelectSeq(deleteResults, LAMBDA r : ~isSuccess(r))
  IN IF failures # <<>>
     THEN failures[Len(failures)]
     ELSE createSuccess(Undefined)

\* deleteAllResult that does not look at the results of the deletions
deleteAllResult_ignoreFailures(deleteResults) == createSuccess(Undefined)

\* deleteResults.find((r) => !isSuccess(r)), then the result of the operation
deleteAllResult(deleteResults) ==
  LET failed == FindFirst(SelectSeq(deleteResults, LAMBDA r : ~isSuccess(r)))
  IN IF failed # Undefined
     THEN failed
     ELSE createSuccess(Undefined)

\* Promise.all has resolved: every deletion has completed
DeleteAllSettled(c) ==
  /\ StepDone(c, "deleteAllMatchingRulesFromChain", 2)
  /\ Return(c, deleteAllResult([i \in 1..Len(cmds[c]) |-> cmds[c][i].res]))
  /\ UNCHANGED eqVars
  /\ UNCHANGED exVars

\* ------------------------------------------------------------------------
\* Deleting and finding rules in the chains of the nat table
\* ------------------------------------------------------------------------

PreLoc == <<"ip", "nat", "PREROUTING">>

PostLoc == <<"ip", "nat", "POSTROUTING">>

NatLocs == {PreLoc, PostLoc}

\* what the engine stores for `ip daddr 127.0.0.1 counter dnat to 127.0.0.1`
\* and for `counter accept`
StoredExprs ==
  { <<MatchDaddr("127.0.0.1"), CounterExpr(0, 0), DnatAddr("127.0.0.1")>>,
    <<CounterExpr(1, 64), AcceptExpr>> }

\* the expression lists of the rule specifications passed by the caller
SpecExprs ==
  { <<MatchDaddr("127.0.0.1"), DnatAddr("127.0.0.1")>>,
    <<AcceptExpr>> }

\* the rule specifications passed by the caller
DelSpecs == { NftRule(l[1], l[2], l[3], 1, e) : l \in NatLocs, e \in SpecExprs }

\* the sequences of at most MaxRules rules of PREROUTING, with distinct
\* handles in any order
DelChains ==
  UNION { { [i \in 1..n |-> NftRule(PreLoc[1], PreLoc[2], PreLoc[3], hs[i], es[i])] :
              hs \in { f \in [1..n -> 1..MaxHandle] : \A i, j \in 1..n : i # j => f[i] # f[j] },
              es \in [1..n -> StoredExprs] } :
          n \in 0..MaxRules }

\* POSTROUTING holds one rule
PostRules ==
  << NftRule(PostLoc[1], PostLoc[2], PostLoc[3], MaxHandle + 1,
             <<MatchDaddr("127.0.0.1"), CounterExpr(0, 0), DnatAddr("127.0.0.1")>>) >>

InitDel ==
  /\ ruleA = NoRule
  /\ ruleB = NoRule
  /\ eqPc = "done"
  /\ eqOut = [ab |-> TRUE, ba |-> TRUE]
  /\ fwTables = {<<"ip", "nat">>}
  /\ \E rules \in DelChains :
       fwChains = (PreLoc :> [def |-> createNfTableChain("ip", "nat", "PREROUTING", "nat", "prerouting", -100)[9],
                              rules |-> rules])
                  @@ (PostLoc :> [def |-> createNfTableChain("ip", "nat", "POSTROUTING", "nat", "postrouting", 100)[9],
                                  rules |-> PostRules])
  /\ fwNextHandle = MaxHandle + 2
  /\ nftInstalled = TRUE
  /\ ExIdle
  /\ CallersIdle({"c1"})

NextDel ==
  \E c \in Callers :
    \/ \E l \in NatLocs : CallGetRulesFromChain(c, l[1], l[2], l[3])
    \/ \E l \in NatLocs, rule \in DelSpecs : CallGetRuleFromChain(c, l[1], l[2], l[3], rule)
    \/ \E l \in NatLocs, rule \in DelSpecs :
         CallDeleteAllMatchingRulesFromChain(c, l[1], l[2], l[3], rule)
    \/ \E i \in 1..MaxRules, outcome \in Outcomes : CommandCompletes(c, i, outcome)
    \/ GetRulesFromChainListed(c)
    \/ GetRuleFromChainListed(c)
    \/ DeleteAllListed(c)
    \/ DeleteAllSettled(c)
    \/ Reset(c)

SpecDel == InitDel /\ [][NextDel]_vars

\* ------------------------------------------------------------------------
\* Provisioning of the standard tables (src/nftables/command.ts)
\* ------------------------------------------------------------------------

\* The builders are pipelines (rpipeAsync) of steps, one command each; they
\* are given as the commands of their steps, in order.
createNatNfTable ==
  << createNfTable("ip", "nat"),
     createNfTableChain("ip", "nat", "PREROUTING", "nat", "prerouting", -100),
     createNfTableChain("ip", "nat", "INPUT", "nat", "input", 100),
     createNfTableChain("ip", "nat", "OUTPUT", "nat", "output", -100),
     createNfTableChain("ip", "nat", "POSTROUTING", "nat", "postrouting", 100) >>

createFilterNfTable ==
  << createNfTable("ip", "filter"),
     createNfTableChain("ip", "filter", "INPUT", "filter", "input", 0),
     createNfTableChain("ip", "filter", "FORWARD", "filter", "forward", 0),
     createNfTableChain("ip", "filter", "OUTPUT", "filter", "output", 0) >>

\* createMangleNfTable with the priorities of the nat table
createMangleNfTable_natPriorities ==
  << createNfTable("ip", "mangle"),
     createNfTableChain("ip", "mangle", "PREROUTING", "filter", "prerouting", -100),
     createNfTableChain("ip", "mangle", "INPUT", "filter", "input", 100),
     createNfTableChain("ip", "mangle", "FORWARD", "filter", "forward", -150),
     createNfTableChain("ip", "mangle", "OUTPUT", "filter", "output", -100),
     createNfTableChain("ip", "mangle", "POSTROUTING", "filter", "postrouting", 100) >>

createMangleNfTable ==
  << createNfTable("ip", "mangle"),
     createNfTableChain("ip", "mangle", "PREROUTING", "filter", "prerouting", -150),
     createNfTableChain("ip", "mangle", "INPUT", "filter", "input", -150),
     createNfTableChain("ip", "mangle", "FORWARD", "filter", "forward", -150),
     createNfTableChain("ip", "mangle", "OUTPUT", "filter", "output", -150),
     createNfTableChain("ip", "mangle", "POSTROUTING", "filter", "postrouting", -150) >>

\* initializeStandardTables with the filter and mangle builders swapped
initializeStandardTables_swapped ==
  createNatNfTable \o createMangleNfTable \o createFilterNfTable

\* A builder that fails ends the outer pipeline with its failure, so the
\* steps of the three builders run as one sequence.
initializeStandardTables ==
  createNatNfTable \o createFilterNfTable \o createMangleNfTable

Builders ==
  {"createNatNfTable", "createFilterNfTable", "createMangleNfTable", "initializeStandardTables"}

StepsOf(name) ==
  CASE name = "createNatNfTable" -> createNatNfTable
    [] name = "createFilterNfTable" -> createFilterNfTable
    [] name = "createMangleNfTable" -> createMangleNfTable
    [] name = "initializeStandardTables" -> initializeStandardTables

\* a builder is called: the command of its first step starts
CallBuilder(c, name) ==
  /\ Call(c, OpOn(name, "", "", "", NoRule), <<StepsOf(name)[1]>>)
  /\ UNCHANGED eqVars
  /\ UNCHANGED exVars

\* BuilderStepDone that, on a failure, deletes the table of the failed step
\* with its chains before it returns
BuilderStepDone_rollback(c) ==
  /\ pc[c] = "await"
  /\ op[c].name \in Builders
  /\ cmds[c][1].done
  /\ LET result == cmds[c][1].res
         steps == StepsOf(op[c].name)
         argv == cmds[c][1].argv
     IN IF ~isSuccess(result)
        THEN /\ pc' = [pc EXCEPT ![c] = "returned"]
             /\ ret' = [ret EXCEPT ![c] = result]
             /\ issued' = [issued EXCEPT ![c] =
                             Append(@, <<"sudo", "nft", "-j", "delete", "table", argv[6], argv[7]>>)]
             /\ fwTables' = fwTables \ {<<argv[6], argv[7]>>}
             /\ fwChains' = [l \in { x \in DOMAIN fwChains : <<x[1], x[2]>> # <<argv[6], argv[7]>> }
                               |-> fwChains[l]]
             /\ UNCHANGED <<op, step, cmds, fwAtCall, fwNextHandle, nftInstalled>>
        ELSE IF step[c] = Len(steps)
        THEN Return(c, result)
        ELSE /\ Issue(c, <<steps[step[c] + 1]>>)
             /\ step' = [step EXCEPT ![c] = @ + 1]
             /\ UNCHANGED <<pc, op, ret, fwAtCall>>
             /\ UNCHANGED fwVars
  /\ UNCHANGED eqVars
  /\ UNCHANGED exVars

\* BuilderStepDone that goes on to the next step whatever the result
BuilderStepDone_noShortCircuit(c) ==
  /\ pc[c] = "await"
  /\ op[c].name \in Builders
  /\ cmds[c][1].done
  /\ LET result == cmds[c][1].res
         steps == StepsOf(op[c].name)
     IN IF step[c] = Len(steps)
        THEN Return(c, result)
        ELSE /\ Issue(c, <<steps[step[c] + 1]>>)
             /\ step' = [step EXCEPT ![c] = @ + 1]
             /\ UNCHANGED <<pc, op, ret, fwAtCall>>
             /\ UNCHANGED fwVars
  /\ UNCHANGED eqVars
  /\ UNCHANGED exVars

\* The command of the running step has completed: a failure ends the pipeline
\* and is its result, the last step's result is the pipeline's result, and
\* otherwise the next step starts.
BuilderStepDone(c) ==
  /\ pc[c] = "await"
  /\ op[c].name \in Builders
  /\ cmds[c][1].done
  /\ LET result == cmds[c][1].res
         steps == StepsOf(op[c].name)
     IN IF ~isSuccess(result) \/ step[c] = Len(steps)
        THEN Return(c, result)
        ELSE /\ Issue(c, <<steps[step[c] + 1]>>)
             /\ step' = [step EXCEPT ![c] = @ + 1]
             /\ UNCHANGED <<pc, op, ret, fwAtCall>>
             /\ UNCHANGED fwVars
  /\ UNCHANGED eqVars
  /\ UNCHANGED exVars

CallIsNftInstalled(c) ==
  /\ Call(c, OpOn("isNftInstalled", "", "", "", NoRule), <<isNftInstalledArgv>>)
  /\ UNCHANGED eqVars
  /\ UNCHANGED exVars

CallInstallNft(c) ==
  /\ Call(c, OpOn("installNft", "", "", "", NoRule), <<installNftArgv>>)
  /\ UNCHANGED eqVars
  /\ UNCHANGED exVars

\* installIfNftMissing() is called: isNftInstalled is its first step
CallInstallIfNftMissing(c) ==
  /\ Call(c, OpOn("installIfNftMissing", "", "", "", NoRule), <<isNftInstalledArgv>>)
  /\ UNCHANGED eqVars
  /\ UNCHANGED exVars

\* InstallChecked that installs whatever the check found
InstallChecked_always(c) ==
  /\ StepDone(c, "installIfNftMissing", 1)
  /\ LET result == cmds[c][1].res
     IN IF ~isSuccess(result)
        THEN Return(c, result)
        ELSE /\ Issue(c, <<installNftArgv>>)
             /\ step' = [step EXCEPT ![c] = 2]
             /\ UNCHANGED <<pc, op, ret, fwAtCall>>
             /\ UNCHANGED fwVars
  /\ UNCHANGED eqVars
  /\ UNCHANGED exVars

\* The check has completed: its failure is the result; when it found nft
\* nothing is installed; otherwise the installation starts.
InstallChecked(c) ==
  /\ StepDone(c, "installIfNftMissing", 1)
  /\ LET result == cmds[c][1].res
     IN IF ~isSuccess(result)
        THEN Return(c, result)
        ELSE IF ~result.output
        THEN /\ Issue(c, <<installNftArgv>>)
             /\ step' = [step EXCEPT ![c] = 2]
             /\ UNCHANGED <<pc, op, ret, fwAtCall>>
             /\ UNCHANGED fwVars
        ELSE Return(c, createSuccess([performedInstall |-> FALSE]))
  /\ UNCHANGED eqVars
  /\ UNCHANGED exVars

\* the installation has completed
InstallDone(c) ==
  /\ StepDone(c, "installIfNftMissing", 2)
  /\ LET result == cmds[c][1].res
     IN Return(c, IF isSuccess(result)
                  THEN createSuccess([performedInstall |-> TRUE])
                  ELSE result)
  /\ UNCHANGED eqVars
  /\ UNCHANGED exVars

InitProv ==
  /\ ruleA = NoRule
  /\ ruleB = NoRule
  /\ eqPc = "done"
  /\ eqOut = [ab |-> TRUE, ba |-> TRUE]
  /\ fwTables = {}
  /\ fwChains = << >>
  /\ fwNextHandle = 1
  /\ nftInstalled \in BOOLEAN
  /\ ExIdle
  /\ CallersIdle({"c1"})

NextProv ==
  \E c \in Callers :
    \/ \E name \in Builders : CallBuilder(c, name)
    \/ CallIsNftInstalled(c)
    \/ CallInstallNft(c)
    \/ CallInstallIfNftMissing(c)
    \/ \E outcome \in Outcomes : CommandCompletes(c, 1, outcome)
    \/ BuilderStepDone(c)
    \/ SingleCommandDone(c)
    \/ InstallChecked(c)
    \/ InstallDone(c)
    \/ Reset(c)

SpecProv == InitProv /\ [][NextProv]_vars

\* ------------------------------------------------------------------------
\* Creating and finding NAT rules (src/nftables/command.ts)
\* ------------------------------------------------------------------------

\* rules created while the model runs get handles up to MaxNatHandle
MaxNatHandle == 4

\* PREROUTING holds at most MaxNatRules rules at the start
MaxNatRules == 2

\* an operation with arguments besides the place and a rule
OpWith(name, family, table, chain, rule, args) ==
  [name |-> name, family |-> family, table |-> table, chain |-> chain, rule |-> rule,
   args |-> args]

\* createRule: sudo nft -j add rule <family> <table> <chain> <rule>
createRuleArgv(family, table, chain, rule) ==
  <<"sudo", "nft", "-j", "add", "rule", family, table, chain, rule>>

\* createRule(family, table, chain, rule) is called
CallCreateRule(c, family, table, chain, rule) ==
  /\ fwNextHandle <= MaxNatHandle
  /\ Call(c, OpWith("createRule", family, table, chain, NoRule, <<rule>>),
          <<createRuleArgv(family, table, chain, rule)>>)
  /\ UNCHANGED eqVars
  /\ UNCHANGED exVars

\* createDnatRule(sourceAddr, destAddr) with the default family, table and chain
createDnatRule(sourceAddr, destAddr, comment) ==
  createRuleArgv("ip", "nat", "PREROUTING", dnatRuleText(sourceAddr, destAddr, comment))

\* createSnatRule(sourceAddr, destAddr) with the default family, table and chain
createSnatRule(sourceAddr, destAddr, comment) ==
  createRuleArgv("ip", "nat", "POSTROUTING", snatRuleText(sourceAddr, destAddr, comment))

CallCreateDnatRule(c, sourceAddr, destAddr, comment) ==
  /\ fwNextHandle <= MaxNatHandle
  /\ Call(c, OpWith("createDnatRule", "ip", "nat", "PREROUTING", NoRule,
                    <<sourceAddr, destAddr, comment>>),
          <<createDnatRule(sourceAddr, destAddr, comment)>>)
  /\ UNCHANGED eqVars
  /\ UNCHANGED exVars

CallCreateSnatRule(c, sourceAddr, destAddr, comment) ==
  /\ fwNextHandle <= MaxNatHandle
  /\ Call(c, OpWith("createSnatRule", "ip", "nat", "POSTROUTING", NoRule,
                    <<sourceAddr, destAddr, comment>>),
          <<createSnatRule(sourceAddr, destAddr, comment)>>)
  /\ UNCHANGED eqVars
  /\ UNCHANGED exVars

\* the steps of createDoubleNatRule(publicAddr, privateAddr, natAddr), with
\* the DNAT and the SNAT creation exchanged
createDoubleNatRule_snatFirst(publicAddr, privateAddr, natAddr) ==
  << createSnatRule(privateAddr, natAddr, ""),
     createDnatRule(publicAddr, privateAddr, "") >>

\* the steps of createDoubleNatRule(publicAddr, privateAddr, natAddr)
createDoubleNatRule(publicAddr, privateAddr, natAddr) ==
  << createDnatRule(publicAddr, privateAddr, ""),
     createSnatRule(privateAddr, natAddr, "") >>

\* createDoubleNatRule that starts both creations at once
CallCreateDoubleNatRule_parallel(c, publicAddr, privateAddr, natAddr) ==
  /\ fwNextHandle + 1 <= MaxNatHandle
  /\ Call(c, OpWith("createDoubleNatRule", "", "", "", NoRule,
                    <<publicAddr, privateAddr, natAddr>>),
          createDoubleNatRule(publicAddr, privateAddr, natAddr))
  /\ UNCHANGED eqVars
  /\ UNCHANGED exVars

CallCreateDoubleNatRule(c, publicAddr, privateAddr, natAddr) ==
  /\ fwNextHandle + 1 <= MaxNatHandle
  /\ Call(c, OpWith("createDoubleNatRule", "", "", "", NoRule,
                    <<publicAddr, privateAddr, natAddr>>),
          <<createDoubleNatRule(publicAddr, privateAddr, natAddr)[1]>>)
  /\ UNCHANGED eqVars
  /\ UNCHANGED exVars

\* DoubleNatStepDone that, when the SNAT creation fails, deletes the DNAT rule
\* it created before it returns
DoubleNatStepDone_rollback(c) ==
  /\ pc[c] = "await"
  /\ op[c].name = "createDoubleNatRule"
  /\ cmds[c][1].done
  /\ LET result == cmds[c][1].res
         steps == createDoubleNatRule(op[c].args[1], op[c].args[2], op[c].args[3])
         created == fwChains[PreLoc].rules[Len(fwChains[PreLoc].rules)]
     IN IF ~isSuccess(result) /\ step[c] = Len(steps)
        THEN /\ pc' = [pc EXCEPT ![c] = "returned"]
             /\ ret' = [ret EXCEPT ![c] = result]
             /\ issued' = [issued EXCEPT ![c] =
                             Append(@, deleteRuleByHandleArgv("ip", "nat", "PREROUTING",
                                                              created.handle))]
             /\ fwChains' = [fwChains EXCEPT ![PreLoc].rules = SubSeq(@, 1, Len(@) - 1)]
             /\ UNCHANGED <<op, step, cmds, fwAtCall, fwTables, fwNextHandle, nftInstalled>>
        ELSE IF ~isSuccess(result) \/ step[c] = Len(steps)
        THEN Return(c, result)
        ELSE /\ Issue(c, <<steps[step[c] + 1]>>)
             /\ step' = [step EXCEPT ![c] = @ + 1]
             /\ UNCHANGED <<pc, op, ret, fwAtCall>>
             /\ UNCHANGED fwVars
  /\ UNCHANGED eqVars
  /\ UNCHANGED exVars

\* DoubleNatStepDone that creates the SNAT rule whatever became of the DNAT rule
DoubleNatStepDone_noShortCircuit(c) ==
  /\ pc[c] = "await"
  /\ op[c].name = "createDoubleNatRule"
  /\ cmds[c][1].done
  /\ LET result == cmds[c][1].res
         steps == createDoubleNatRule(op[c].args[1], op[c].args[2], op[c].args[3])
     IN IF step[c] = Len(steps)
        THEN Return(c, result)
        ELSE /\ Issue(c, <<steps[step[c] + 1]>>)
             /\ step' = [step EXCEPT ![c] = @ + 1]
             /\ UNCHANGED <<pc, op, ret, fwAtCall>>
             /\ UNCHANGED fwVars
  /\ UNCHANGED eqVars
  /\ UNCHANGED exVars

\* The command of the running step of createDoubleNatRule has completed: a
\* failed DNAT creation is the result, otherwise the SNAT creation starts and
\* its result is the result.
DoubleNatStepDone(c) ==
  /\ pc[c] = "await"
  /\ op[c].name = "createDoubleNatRule"
  /\ cmds[c][1].done
  /\ LET result == cmds[c][1].res
         steps == createDoubleNatRule(op[c].args[1], op[c].args[2], op[c].args[3])
     IN IF ~isSuccess(result) \/ step[c] = Len(steps)
        THEN Return(c, result)
        ELSE /\ Issue(c, <<steps[step[c] + 1]>>)
             /\ step' = [step EXCEPT ![c] = @ + 1]
             /\ UNCHANGED <<pc, op, ret, fwAtCall>>
             /\ UNCHANGED fwVars
  /\ UNCHANGED eqVars
  /\ UNCHANGED exVars

\* the test on one rule of getDNatRuleFromChain: hasMatchingSource
hasMatchingSource(entry, sourceAddr) ==
  \E i \in 1..Len(entry.expr) :
    LET expr == entry.expr[i]
    IN /\ HasKey(expr, "match")
       /\ HasKey(Get(Get(expr, "match"), "left"), "payload")
       /\ Get(Get(Get(Get(expr, "match"), "left"), "payload"), "protocol") = JStr("ip")
       /\ Get(Get(Get(Get(expr, "match"), "left"), "payload"), "field") = JStr("daddr")
       /\ Get(Get(expr, "match"), "right") = JStr(sourceAddr)

\* the test on one rule of getDNatRuleFromChain: hasMatchingDnat
hasMatchingDnat(entry, destAddr) ==
  \E i \in 1..Len(entry.expr) :
    LET expr == entry.expr[i]
    IN /\ HasKey(expr, "dnat")
       /\ HasKey(Get(expr, "dnat"), "addr")
       /\ Get(Get(expr, "dnat"), "addr") = JStr(destAddr)

\* getDNatRuleFromChainFind that is content with either of the two
getDNatRuleFromChainFind_either(result, sourceAddr, destAddr) ==
  createSuccess(FindFirst(SelectSeq(result, LAMBDA entry :
    hasMatchingSource(entry, sourceAddr) \/ hasMatchingDnat(entry, destAddr))))

\* the second step of getDNatRuleFromChain
getDNatRuleFromChainFind(result, sourceAddr, destAddr) ==
  createSuccess(FindFirst(SelectSeq(result, LAMBDA entry :
    hasMatchingSource(entry, sourceAddr) /\ hasMatchingDnat(entry, destAddr))))

\* getDNatRuleFromChain(family, table, chain, sourceAddr, destAddr) is called
CallGetDNatRuleFromChain(c, family, table, chain, sourceAddr, destAddr) ==
  /\ Call(c, OpWith("getDNatRuleFromChain", family, table, chain, NoRule,
                    <<sourceAddr, destAddr>>),
          <<getChainArgv(family, table, chain)>>)
  /\ UNCHANGED eqVars
  /\ UNCHANGED exVars

GetDNatRuleFromChainListed(c) ==
  /\ StepDone(c, "getDNatRuleFromChain", 1)
  /\ LET result == getRulesFromChain(cmds[c][1].res)
     IN IF ~isSuccess(result)
        THEN Return(c, result)
        ELSE Return(c, getDNatRuleFromChainFind(result.output, op[c].args[1], op[c].args[2]))
  /\ UNCHANGED eqVars
  /\ UNCHANGED exVars

\* getRuleByHandleFind that reports a missing rule as a success without output
getRuleByHandleFind_undefined(result, handle) ==
  createSuccess(FindFirst(SelectSeq(result, LAMBDA entry : entry.handle = handle)))

\* the second step of getRuleByHandle
getRuleByHandleFind(result, handle) ==
  LET rule == FindFirst(SelectSeq(result, LAMBDA entry : entry.handle = handle))
  IN IF rule = Undefined
     THEN createFail("Rule not found")
     ELSE createSuccess(rule)

\* getRuleByHandle(family, table, chain, handle) is called
CallGetRuleByHandle(c, family, table, chain, handle) ==
  /\ Call(c, OpWith("getRuleByHandle", family, table, chain, NoRule, <<handle>>),
          <<getChainArgv(family, table, chain)>>)
  /\ UNCHANGED eqVars
  /\ UNCHANGED exVars

GetRuleByHandleListed(c) ==
  /\ StepDone(c, "getRuleByHandle", 1)
  /\ LET result == getRulesFromChain(cmds[c][1].res)
     IN IF ~isSuccess(result)
        THEN Return(c, result)
        ELSE Return(c, getRuleByHandleFind(result.output, op[c].args[1]))
  /\ UNCHANGED eqVars
  /\ UNCHANGED exVars

\* deleteRuleByHandle(family, table, chain, handle) is called
CallDeleteRuleByHandle(c, family, table, chain, handle) ==
  /\ Call(c, OpWith("deleteRuleByHandle", family, table, chain, NoRule, <<handle>>),
          <<deleteRuleByHandleArgv(family, table, chain, handle)>>)
  /\ UNCHANGED eqVars
  /\ UNCHANGED exVars

\* deleteRuleFromChain(family, table, chain, rule) is called: getRuleFromChain
\* is its first step
CallDeleteRuleFromChain(c, family, table, chain, rule) ==
  /\ Call(c, OpOn("deleteRuleFromChain", family, table, chain, rule),
          <<getChainArgv(family, table, chain)>>)
  /\ UNCHANGED eqVars
  /\ UNCHANGED exVars

\* DeleteRuleFromChainListed that deletes every rule equal to the
\* specification instead of the one found
DeleteRuleFromChainListed_allMatches(c) ==
  /\ StepDone(c, "deleteRuleFromChain", 1)
  /\ LET result == getRulesFromChain(cmds[c][1].res)
         found == IF isSuccess(result)
                  THEN getRuleFromChainFind(result.output, op[c].rule)
                  ELSE result
     IN IF ~isSuccess(found)
        THEN Return(c, found)
        ELSE LET matchingRules == matchingRulesOf(result.output, op[c].rule)
             IN /\ Issue(c, [i \in 1..Len(matchingRules) |->
                               deleteRuleByHandleArgv(op[c].family, op[c].table, op[c].chain,
                                                      matchingRules[i].handle)])
                /\ step' = [step EXCEPT ![c] = 2]
                /\ UNCHANGED <<pc, op, ret, fwAtCall>>
                /\ UNCHANGED fwVars
  /\ UNCHANGED eqVars
  /\ UNCHANGED exVars

\* getRuleFromChain has completed: its failure is the result, otherwise the
\* rule it found is deleted by its handle
DeleteRuleFromChainListed(c) ==
  /\ StepDone(c, "deleteRuleFromChain", 1)
  /\ LET result == getRulesFromChain(cmds[c][1].res)
         found == IF isSuccess(result)
                  THEN getRuleFromChainFind(result.output, op[c].rule)
                  ELSE result
     IN IF ~isSuccess(found)
        THEN Return(c, found)
        ELSE /\ Issue(c, <<deleteRuleByHandleArgv(op[c].family, op[c].table, op[c].chain,
                                                  found.output.handle)>>)
             /\ step' = [step EXCEPT ![c] = 2]
             /\ UNCHANGED <<pc, op, ret, fwAtCall>>
             /\ UNCHANGED fwVars
  /\ UNCHANGED eqVars
  /\ UNCHANGED exVars

\* the deletion of deleteRuleFromChain has completed: its result is the result
DeleteRuleFromChainDeleted(c) ==
  /\ StepDone(c, "deleteRuleFromChain", 2)
  /\ Return(c, cmds[c][1].res)
  /\ UNCHANGED eqVars
  /\ UNCHANGED exVars

\* getTables: sudo nft -j list tables
getTablesArgv == <<"sudo", "nft", "-j", "list", "tables">>

\* getTable that flushes the table instead of listing it
getTableArgv_flush(family, tableName) ==
  <<"sudo", "nft", "-j", "flush", "table", family, tableName>>

\* getTable: sudo nft -j list table <family> <tableName>
getTableArgv(family, tableName) == <<"sudo", "nft", "-j", "list", "table", family, tableName>>

CallGetTables(c) ==
  /\ Call(c, OpOn("getTables", "", "", "", NoRule), <<getTablesArgv>>)
  /\ UNCHANGED eqVars
  /\ UNCHANGED exVars

CallGetTable(c, family, tableName) ==
  /\ Call(c, OpOn("getTable", family, tableName, "", NoRule), <<getTableArgv(family, tableName)>>)
  /\ UNCHANGED eqVars
  /\ UNCHANGED exVars

CallGetChain(c, family, tableName, chainName) ==
  /\ Call(c, OpOn("getChain", family, tableName, chainName, NoRule),
          <<getChainArgv(family, tableName, chainName)>>)
  /\ UNCHANGED eqVars
  /\ UNCHANGED exVars

\* the second step of getRules, on the result of getTables: the filter tests
\* the entry itself with isNftRule, and nothing is mapped
getRules(tablesResult) ==
  IF ~isSuccess(tablesResult)
  THEN tablesResult
  ELSE createSuccess(SelectSeq(tablesResult.output.nftables, LAMBDA entry : isNftRule(entry)))

CallGetRules(c) ==
  /\ Call(c, OpOn("getRules", "", "", "", NoRule), <<getTablesArgv>>)
  /\ UNCHANGED eqVars
  /\ UNCHANGED exVars

GetRulesListed(c) ==
  /\ StepDone(c, "getRules", 1)
  /\ Return(c, getRules(cmds[c][1].res))
  /\ UNCHANGED eqVars
  /\ UNCHANGED exVars

\* getRulesFromTable with the filter of getRules: the guard is applied to the
\* entry itself and nothing is mapped
getRulesFromTable_entryGuard(tableResult) ==
  IF ~isSuccess(tableResult)
  THEN tableResult
  ELSE createSuccess(SelectSeq(tableResult.output.nftables, LAMBDA entry : isNftRule(entry)))

\* the second step of getRulesFromTable, on the result of getTable
getRulesFromTable(tableResult) ==
  IF ~isSuccess(tableResult)
  THEN tableResult
  ELSE createSuccess(
         MapRule(SelectSeq(tableResult.output.nftables,
                           LAMBDA entry : isNftableEntryRule(entry))))

CallGetRulesFromTable(c, family, tableName) ==
  /\ Call(c, OpOn("getRulesFromTable", family, tableName, "", NoRule),
          <<getTableArgv(family, tableName)>>)
  /\ UNCHANGED eqVars
  /\ UNCHANGED exVars

GetRulesFromTableListed(c) ==
  /\ StepDone(c, "getRulesFromTable", 1)
  /\ Return(c, getRulesFromTable(cmds[c][1].res))
  /\ UNCHANGED eqVars
  /\ UNCHANGED exVars

\* The rules PREROUTING may hold at the start: a DNAT rule that has counted
\* packets, a rule with the dnat before the match and a counter between them,
\* and a DNAT rule that matches the source address.
NatBodies ==
  { <<MatchDaddr("127.0.0.1"), CounterExpr(1, 64), DnatAddr("127.0.0.1")>>,
    <<DnatAddr("10.0.0.5"), CounterExpr(0, 0), MatchDaddr("127.0.0.1")>>,
    <<MatchSaddr("127.0.0.1"), CounterExpr(0, 0), DnatAddr("127.0.0.1")>> }

\* the sequences of at most MaxNatRules such rules, with handles 1, 2, ...
NatChains ==
  UNION { { [i \in 1..n |-> NftRule(PreLoc[1], PreLoc[2], PreLoc[3], i, es[i])] :
              es \in [1..n -> NatBodies] } :
          n \in 0..MaxNatRules }

\* the rule specifications passed by the caller: the expressions of the test
\* of getRuleFromChain, with two handles
NatSpecs ==
  { NftRule(PreLoc[1], PreLoc[2], PreLoc[3], h,
            <<MatchDaddr("127.0.0.1"), DnatAddr("127.0.0.1")>>) : h \in {1, MaxNatHandle + 1} }

\* the rule texts passed to createRule; the engine does not accept the last
NatTexts == { dnatRuleText("127.0.0.1", "127.0.0.1", ""), "bogus" }

InitNat ==
  /\ ruleA = NoRule
  /\ ruleB = NoRule
  /\ eqPc = "done"
  /\ eqOut = [ab |-> TRUE, ba |-> TRUE]
  /\ fwTables = {<<"ip", "nat">>}
  /\ \E rules \in NatChains :
       fwChains = (PreLoc :> [def |-> createNfTableChain("ip", "nat", "PREROUTING", "nat", "prerouting", -100)[9],
                              rules |-> rules])
                  @@ (PostLoc :> [def |-> createNfTableChain("ip", "nat", "POSTROUTING", "nat", "postrouting", 100)[9],
                                  rules |-> <<>>])
  /\ fwNextHandle = MaxNatRules + 1
  /\ nftInstalled = TRUE
  /\ ExIdle
  /\ CallersIdle({"c1"})

NextNat ==
  \E c \in Callers :
    \/ \E l \in NatLocs, text \in NatTexts : CallCreateRule(c, l[1], l[2], l[3], text)
    \/ \E cm \in Comments : CallCreateDnatRule(c, "127.0.0.1", "127.0.0.1", cm)
    \/ CallCreateSnatRule(c, "127.0.0.1", "10.0.0.5", "")
    \/ CallCreateDoubleNatRule(c, "10.0.0.5", "127.0.0.1", "10.0.0.5")
    \/ \E l \in NatLocs, rule \in NatSpecs : CallGetRuleFromChain(c, l[1], l[2], l[3], rule)
    \/ \E l \in NatLocs, a, b \in Addrs : CallGetDNatRuleFromChain(c, l[1], l[2], l[3], a, b)
    \/ \E h \in 1..MaxNatHandle : CallGetRuleByHandle(c, PreLoc[1], PreLoc[2], PreLoc[3], h)
    \/ \E h \in 1..MaxNatHandle : CallDeleteRuleByHandle(c, PreLoc[1], PreLoc[2], PreLoc[3], h)
    \/ \E l \in NatLocs, rule \in NatSpecs : CallDeleteRuleFromChain(c, l[1], l[2], l[3], rule)
    \/ CallGetTables(c)
    \/ \E t \in {"nat", "filter"} : CallGetTable(c, "ip", t)
    \/ \E l \in NatLocs : CallGetChain(c, l[1], l[2], l[3])
    \/ CallGetRules(c)
    \/ \E t \in {"nat", "filter"} : CallGetRulesFromTable(c, "ip", t)
    \/ \E l \in NatLocs : CallGetRulesFromChain(c, l[1], l[2], l[3])
    \/ \E outcome \in Outcomes : CommandCompletes(c, 1, outcome)
    \/ SingleCommandDone(c)
    \/ DoubleNatStepDone(c)
    \/ GetRuleFromChainListed(c)
    \/ GetDNatRuleFromChainListed(c)
    \/ GetRuleByHandleListed(c)
    \/ DeleteRuleFromChainListed(c)
    \/ DeleteRuleFromChainDeleted(c)
    \/ GetRulesListed(c)
    \/ GetRulesFromTableListed(c)
    \/ GetRulesFromChainListed(c)
    \/ Reset(c)

SpecNat == InitNat /\ [][NextNat]_vars

\* ------------------------------------------------------------------------
\* The sequential pipelines together, from an empty firewall
\* ------------------------------------------------------------------------

\* the specifications of the rules that createDoubleNatRule("10.0.0.5",
\* "127.0.0.1", "10.0.0.5") creates
PipeSpecs ==
  { NftRule(PreLoc[1], PreLoc[2], PreLoc[3], 1,
            <<MatchDaddr("10.0.0.5"), DnatAddr("127.0.0.1")>>),
    NftRule(PostLoc[1], PostLoc[2], PostLoc[3], 1,
            <<MatchSaddr("127.0.0.1"), SnatAddr("10.0.0.5")>>) }

InitPipe ==
  /\ ruleA = NoRule
  /\ ruleB = NoRule
  /\ eqPc = "done"
  /\ eqOut = [ab |-> TRUE, ba |-> TRUE]
  /\ fwTables = {}
  /\ fwChains = << >>
  /\ fwNextHandle = 1
  /\ nftInstalled = TRUE
  /\ ExIdle
  /\ CallersIdle({"c1"})

NextPipe ==
  \E c \in Callers :
    \/ \E name \in Builders : CallBuilder(c, name)
    \/ CallCreateDoubleNatRule(c, "10.0.0.5", "127.0.0.1", "10.0.0.5")
    \/ \E rule \in PipeSpecs :
         CallDeleteRuleFromChain(c, rule.family, rule.table, rule.chain, rule)
    \/ \E outcome \in Outcomes : CommandCompletes(c, 1, outcome)
    \/ BuilderStepDone(c)
    \/ DoubleNatStepDone(c)
    \/ DeleteRuleFromChainListed(c)
    \/ DeleteRuleFromChainDeleted(c)
    \/ Reset(c)

SpecPipe == InitPipe /\ [][NextPipe]_vars

\* ------------------------------------------------------------------------
\* The command executor on every output of a process
\* ------------------------------------------------------------------------

\* a listing has at most MaxEntries entries
MaxEntries == 3

\* entries of a listing: metainfo, a table, a chain, a set, a rule entry whose
\* record lacks the handle and the expressions, and two rules
ExEntries ==
  { [metainfo |-> [json_schema_version |-> 1]],
    [table |-> [family |-> "ip", name |-> "nat", handle |-> 1]],
    [chain |-> [family |-> "ip", table |-> "nat", name |-> "PREROUTING", handle |-> 1]],
    [set |-> [family |-> "ip", table |-> "nat", name |-> "allowed", handle |-> 3]],
    [rule |-> [family |-> "ip", table |-> "nat", chain |-> "PREROUTING"]],
    [rule |-> NftRule("ip", "nat", "PREROUTING", 1,
                      <<MatchDaddr("127.0.0.1"), CounterExpr(0, 0), DnatAddr("127.0.0.1")>>)],
    [rule |-> NftRule("ip", "nat", "POSTROUTING", 2, <<CounterExpr(1, 64), AcceptExpr>>)] }

\* the listings (NftablesList) of at most MaxEntries entries
ExListings ==
  UNION { { [nftables |-> entries] : entries \in [1..n -> ExEntries] } : n \in 0..MaxEntries }

\* what a process may write to stdout: nothing, a path, a text that is not
\* JSON, or the JSON text of a listing
ExStdouts ==
  {Text(""), Text("/usr/sbin/nft"), Text("nft: JSON support not compiled-in")}
    \cup { JSONtext(listing) : listing \in ExListings }

\* what it may write to stderr
ExStderrs == {"", "Warning: table ip nat is managed by iptables-nft, do not touch!",
              "Error: Could not process rule: Operation not permitted"}

\* every way a process can go: starting it throws, or it exits with a code
\* having written stdout and stderr
ExProcs ==
  { ProcessThrew(e) : e \in {"NotFound: Failed to spawn 'sudo'", "PermissionDenied: run access"} }
    \cup { ProcessExited(code, stdout, stderr) :
             code \in {0, 1}, stdout \in ExStdouts, stderr \in ExStderrs }

\* a pipeline (rpipeAsync) whose first step is tablesResult and whose second
\* step is getRules' filter: a rejected first step rejects the pipeline
getRulesPipeline(tablesResult) ==
  IF ~IsResult(tablesResult) THEN tablesResult ELSE getRules(tablesResult)

\* the pipelines of getRulesFromChain and getRulesFromTable on the outcome of
\* their first step (getChain, getTable): a rejected first step rejects the
\* pipeline
getRulesFromChainPipeline(chainResult) ==
  IF ~IsResult(chainResult) THEN chainResult ELSE getRulesFromChain(chainResult)

getRulesFromTablePipeline(tableResult) ==
  IF ~IsResult(tableResult) THEN tableResult ELSE getRulesFromTable(tableResult)

InitExec ==
  /\ ruleA = NoRule
  /\ ruleB = NoRule
  /\ eqPc = "done"
  /\ eqOut = [ab |-> TRUE, ba |-> TRUE]
  /\ fwTables = {}
  /\ fwChains = << >>
  /\ fwNextHandle = 1
  /\ nftInstalled = TRUE
  /\ exProc \in ExProcs
  /\ exPc = "start"
  /\ exOut = NoResult
  /\ CallersIdle({})

\* The process of the one command of an operation ends as exProc: what
\* runCommand makes of it, and what the one-command operations make of it
\* with their processors (createRule: none; getTables: JSON.parse;
\* isNftInstalled: output !== ""), and getRules on top of getTables,
\* getRulesFromChain on top of getChain, getRulesFromTable on top of getTable.
RunExecutor ==
  /\ exPc = "start"
  /\ exOut' = [runCommand |-> runCommand(exProc),
               createRule |-> runCommandAndProcessOutput("default", exProc),
               getTables |-> runCommandAndProcessOutput("JSON.parse", exProc),
               isNftInstalled |-> runCommandAndProcessOutput("isNftInstalled", exProc),
               getRules |-> getRulesPipeline(runCommandAndProcessOutput("JSON.parse", exProc)),
               getRulesFromChain |->
                 getRulesFromChainPipeline(runCommandAndProcessOutput("JSON.parse", exProc)),
               getRulesFromTable |->
                 getRulesFromTablePipeline(runCommandAndProcessOutput("JSON.parse", exProc))]
  /\ exPc' = "done"
  /\ UNCHANGED exProc
  /\ UNCHANGED eqVars
  /\ UNCHANGED fwVars
  /\ UNCHANGED callVars

NextExec == RunExecutor

SpecExec == InitExec /\ [][NextExec]_vars

\* ========================================================================
\* Properties of areRulesEqual (checked under SpecEq)
\* ========================================================================

IsCounterExpr(e) == HasKey(e, "counter")

SameLocation(a, b) ==
  /\ a.family = b.family
  /\ a.table = b.table
  /\ a.chain = b.chain

\* a and b differ at most in their handle and in the packets/bytes values of
\* their counter expressions
DifferOnlyInHandleAndCounters(a, b) ==
  /\ SameLocation(a, b)
  /\ Len(a.expr) = Len(b.expr)
  /\ \A i \in 1..Len(a.expr) :
       \/ a.expr[i] = b.expr[i]
       \/ IsCounterExpr(a.expr[i]) /\ IsCounterExpr(b.expr[i])

\* the expression list without its counter expressions
RemoveCounters(expr) == SelectSeq(expr, LAMBDA e : ~IsCounterExpr(e))

\* C1: two rules that differ only in their handle and in the packets/bytes
\* values of their counter expressions are equal for areRulesEqual.
C1_HandleAndCountersIgnored ==
  (eqPc = "done" /\ DifferOnlyInHandleAndCounters(ruleA, ruleB)) => eqOut.ab

\* a compared pair with different handles, a counter whose values differ and
\* a shared non-counter expression
C1_Witness ==
  /\ eqPc = "done"
  /\ DifferOnlyInHandleAndCounters(ruleA, ruleB)
  /\ ruleA.handle # ruleB.handle
  /\ \E i \in 1..Len(ruleA.expr) :
       IsCounterExpr(ruleA.expr[i]) /\ ruleA.expr[i] # ruleB.expr[i]
  /\ \E i \in 1..Len(ruleA.expr) : ~IsCounterExpr(ruleA.expr[i])
  /\ eqOut.ab

\* C2: areRulesEqual(a, b) is true exactly when family, table and chain are
\* the same and the expression lists without their counters are equal by
\* order-sensitive deep structural (field-by-field value) equality.
C2_EqualIffDeepEqual ==
  eqPc = "done" =>
    (eqOut.ab <=>
       /\ SameLocation(ruleA, ruleB)
       /\ DeepEqual(JArr(RemoveCounters(ruleA.expr)), JArr(RemoveCounters(ruleB.expr))))

\* C3: rules that differ in family, in table or in chain are never equal,
\* whatever their expression lists are.
C3_DifferentLocationNotEqual ==
  (eqPc = "done" /\ ~SameLocation(ruleA, ruleB)) => ~eqOut.ab

\* a compared pair that differs in the chain only
C3_Witness ==
  /\ eqPc = "done"
  /\ ruleA.chain # ruleB.chain
  /\ ruleA.family = ruleB.family
  /\ ruleA.table = ruleB.table
  /\ ruleA.handle = ruleB.handle
  /\ ruleA.expr = ruleB.expr
  /\ Len(ruleA.expr) > 0
  /\ ~eqOut.ab

\* C4: areRulesEqual is symmetric: areRulesEqual(a, b) = areRulesEqual(b, a).
C4_Symmetric ==
  eqPc = "done" => (eqOut.ab = eqOut.ba)

\* two different expression lists, one with a counter, found equal both ways
C4_Witness ==
  /\ eqPc = "done"
  /\ Len(ruleA.expr) # Len(ruleB.expr)
  /\ eqOut.ab
  /\ eqOut.ba

\* ========================================================================
\* Properties of the deletions and queries (checked under SpecDel)
\* ========================================================================

Range(seq) == { seq[i] : i \in 1..Len(seq) }

OpLoc(c) == <<op[c].family, op[c].table, op[c].chain>>

\* the rules of the chain the operation of c works on, when it was called
\* and now
ChainAtCall(c) == fwAtCall[c][OpLoc(c)].rules

ChainNow(c) == fwChains[OpLoc(c)].rules

\* the handles of the rules of a chain that equal the specification of c
MatchingHandles(c, rules) ==
  { r.handle : r \in { x \in Range(rules) : areRulesEqual(x, op[c].rule) } }

\* the delete commands issued by c so far, in order
DeletesIssued(c) == SelectSeq(issued[c], LAMBDA argv : argv[4] = "delete")

\* the delete-by-handle command for handle h of the chain of c
DeleteCommand(c, h) ==
  <<"sudo", "nft", "-j", "delete", "rule", op[c].family, op[c].table, op[c].chain,
    "handle", ToString(h)>>

\* exactly one delete command per handle of hs has been issued, and no other
OneDeletePerHandle(c, hs) ==
  /\ Len(DeletesIssued(c)) = Cardinality(hs)
  /\ Range(DeletesIssued(c)) = { DeleteCommand(c, h) : h \in hs }

\* what getRulesFromChain would return from this state for the chain of c when
\* its list command runs
ListingNow(c) ==
  getRulesFromChain(
    runCommandAndProcessOutput(
      "JSON.parse",
      Execute(getChainArgv(op[c].family, op[c].table, op[c].chain), "run",
              fwTables, fwChains, fwNextHandle, nftInstalled).proc)).output

InDeleteAll(c) == op[c].name = "deleteAllMatchingRulesFromChain"

\* the fan-out of c has been started
FannedOut(c) == InDeleteAll(c) /\ step[c] = 2

\* c has returned and its listing succeeded
ListedAndReturned(c) ==
  /\ pc[c] = "returned"
  /\ \/ step[c] = 2
     \/ step[c] = 1 /\ isSuccess(cmds[c][1].res)

AllDeletionsSucceeded(c) == \A i \in 1..Len(cmds[c]) : isSuccess(cmds[c][i].res)

\* C5: with N >= 1 rules of the listed chain equal to the specification,
\* deleteAllMatchingRulesFromChain issues exactly N delete-by-handle commands,
\* one per matching handle; when all N succeed it returns success and a
\* listing of the chain taken then holds no rule equal to the specification.
C5_DeletesAllMatches ==
  \A c \in Callers :
    (InDeleteAll(c) /\ MatchingHandles(c, ChainAtCall(c)) # {}
       /\ (FannedOut(c) \/ ListedAndReturned(c)))
    => /\ step[c] = 2
       /\ OneDeletePerHandle(c, MatchingHandles(c, ChainAtCall(c)))
       /\ Len(issued[c]) = 1 + Cardinality(MatchingHandles(c, ChainAtCall(c)))
       /\ (pc[c] = "returned" /\ AllDeletionsSucceeded(c))
            => /\ ret[c] = createSuccess(Undefined)
               /\ MatchingHandles(c, ListingNow(c)) = {}

\* a call that found two or more matches, deleted them all and returned success
C5_Witness ==
  \E c \in Callers :
    /\ InDeleteAll(c)
    /\ pc[c] = "returned"
    /\ step[c] = 2
    /\ Cardinality(MatchingHandles(c, ChainAtCall(c))) >= 2
    /\ Len(ChainAtCall(c)) > Cardinality(MatchingHandles(c, ChainAtCall(c)))
    /\ AllDeletionsSucceeded(c)
    /\ isSuccess(ret[c])

\* C6: when the listing succeeds and holds no rule equal to the specification,
\* deleteAllMatchingRulesFromChain returns the failure "No matching rules
\* found", issues no delete command and leaves the chains as they were.
C6_NoMatchFailsWithoutDeleting ==
  \A c \in Callers :
    (InDeleteAll(c) /\ MatchingHandles(c, ChainAtCall(c)) = {})
    => /\ step[c] # 2
       /\ DeletesIssued(c) = <<>>
       /\ ListedAndReturned(c)
            => /\ ret[c] = createFail("No matching rules found")
               /\ issued[c] = <<getChainArgv(op[c].family, op[c].table, op[c].chain)>>
               /\ fwChains = fwAtCall[c]

\* a call on a chain that holds rules, none of them equal to the specification
C6_Witness ==
  \E c \in Callers :
    /\ InDeleteAll(c)
    /\ pc[c] = "returned"
    /\ isSuccess(cmds[c][1].res)
    /\ ChainAtCall(c) # <<>>
    /\ MatchingHandles(c, ChainAtCall(c)) = {}
    /\ ~isSuccess(ret[c])
    /\ ret[c].error = "No matching rules found"

\* the handle a delete command of c names is in the chain of c
StillThere(c, argv) ==
  \E r \in Range(ChainNow(c)) : ToString(r.handle) = argv[10]

\* some deletion of c failed and another succeeded
PartialFailure(c) ==
  /\ FannedOut(c)
  /\ pc[c] = "returned"
  /\ \E i \in 1..Len(cmds[c]) : ~isSuccess(cmds[c][i].res)
  /\ \E i \in 1..Len(cmds[c]) : isSuccess(cmds[c][i].res)

\* C7: when a deletion of the fan-out fails while another succeeds, the
\* operation returns a failure, a delete command has been issued for every
\* matching handle, and the rules whose deletion succeeded are out of the
\* chain: nothing is re-created or rolled back.
C7_PartialFailureNotRolledBack ==
  \A c \in Callers :
    PartialFailure(c)
    => /\ ~isSuccess(ret[c])
       /\ OneDeletePerHandle(c, MatchingHandles(c, ChainAtCall(c)))
       /\ \A k \in 2..Len(issued[c]) : issued[c][k][4] = "delete"
       /\ \A i \in 1..Len(cmds[c]) :
            isSuccess(cmds[c][i].res) => ~StillThere(c, cmds[c][i].argv)

\* a partial failure: the rule of the failed deletion is still in the chain,
\* the rule of the succeeded one is not
C7_Witness ==
  \E c \in Callers :
    /\ PartialFailure(c)
    /\ ~isSuccess(ret[c])
    /\ \E i, j \in 1..Len(cmds[c]) :
         /\ ~isSuccess(cmds[c][i].res) /\ StillThere(c, cmds[c][i].argv)
         /\ isSuccess(cmds[c][j].res) /\ ~StillThere(c, cmds[c][j].argv)

EqualsSpec(c, r) == areRulesEqual(r, op[c].rule)

\* c has returned from getRuleFromChain and its listing succeeded
FoundOrNot(c) ==
  /\ op[c].name = "getRuleFromChain"
  /\ pc[c] = "returned"
  /\ isSuccess(cmds[c][1].res)

\* C10: getRuleFromChain returns the first rule, in the order of the chain
\* listing, that equals the specification, and fails with "Rule not found"
\* when the listing holds no such rule.
C10_FirstMatchInListingOrder ==
  \A c \in Callers :
    FoundOrNot(c)
    => LET listing == ChainAtCall(c)
       IN IF \E i \in 1..Len(listing) : EqualsSpec(c, listing[i])
          THEN \E i \in 1..Len(listing) :
                 /\ EqualsSpec(c, listing[i])
                 /\ \A j \in 1..(i - 1) : ~EqualsSpec(c, listing[j])
                 /\ ret[c] = createSuccess(listing[i])
          ELSE ret[c] = createFail("Rule not found")

\* two listed rules equal the specification, the first listed has the higher
\* handle, and it is the one returned
C10_Witness ==
  \E c \in Callers :
    /\ FoundOrNot(c)
    /\ isSuccess(ret[c])
    /\ \E i, j \in 1..Len(ChainAtCall(c)) :
         /\ i < j
         /\ EqualsSpec(c, ChainAtCall(c)[i])
         /\ EqualsSpec(c, ChainAtCall(c)[j])
         /\ ChainAtCall(c)[i].handle > ChainAtCall(c)[j].handle
         /\ \A k \in 1..(i - 1) : ~EqualsSpec(c, ChainAtCall(c)[k])
         /\ ret[c].output.handle = ChainAtCall(c)[i].handle

\* ========================================================================
\* Properties of the provisioning pipelines (checked under SpecProv)
\* ========================================================================

NftAdd(rest) == <<"sudo", "nft", "-j", "add">> \o rest

\* the five commands of the nat builder
ExpectedNat ==
  << NftAdd(<<"table", "ip", "nat">>),
     NftAdd(<<"chain", "ip", "nat", "PREROUTING",
              "{ type nat hook prerouting priority -100; policy accept; }">>),
     NftAdd(<<"chain", "ip", "nat", "INPUT",
              "{ type nat hook input priority 100; policy accept; }">>),
     NftAdd(<<"chain", "ip", "nat", "OUTPUT",
              "{ type nat hook output priority -100; policy accept; }">>),
     NftAdd(<<"chain", "ip", "nat", "POSTROUTING",
              "{ type nat hook postrouting priority 100; policy accept; }">>) >>

\* the four commands of the filter builder
ExpectedFilter ==
  << NftAdd(<<"table", "ip", "filter">>),
     NftAdd(<<"chain", "ip", "filter", "INPUT",
              "{ type filter hook input priority 0; policy accept; }">>),
     NftAdd(<<"chain", "ip", "filter", "FORWARD",
              "{ type filter hook forward priority 0; policy accept; }">>),
     NftAdd(<<"chain", "ip", "filter", "OUTPUT",
              "{ type filter hook output priority 0; policy accept; }">>) >>

\* the six commands of the mangle builder
ExpectedMangle ==
  << NftAdd(<<"table", "ip", "mangle">>),
     NftAdd(<<"chain", "ip", "mangle", "PREROUTING",
              "{ type filter hook prerouting priority -150; policy accept; }">>),
     NftAdd(<<"chain", "ip", "mangle", "INPUT",
              "{ type filter hook input priority -150; policy accept; }">>),
     NftAdd(<<"chain", "ip", "mangle", "FORWARD",
              "{ type filter hook forward priority -150; policy accept; }">>),
     NftAdd(<<"chain", "ip", "mangle", "OUTPUT",
              "{ type filter hook output priority -150; policy accept; }">>),
     NftAdd(<<"chain", "ip", "mangle", "POSTROUTING",
              "{ type filter hook postrouting priority -150; policy accept; }">>) >>

\* In every state of a run of pipeline name by c: the commands issued so far
\* are the first commands of expected, in order; once it has returned, its
\* result is the result of the last command issued, and a success means that
\* all of expected was issued.
PipelineInOrder(c, name, expected) ==
  op[c].name = name
  => /\ Len(issued[c]) <= Len(expected)
     /\ issued[c] = SubSeq(expected, 1, Len(issued[c]))
     /\ Len(cmds[c]) = 1
     /\ cmds[c][1].argv = issued[c][Len(issued[c])]
     /\ pc[c] = "returned"
          => /\ cmds[c][1].done
             /\ ret[c] = cmds[c][1].res
             /\ isSuccess(ret[c]) => issued[c] = expected

\* In every step of a run of pipeline name by c: a further command is issued
\* only when the command before it has completed with success, and it is the
\* next one of expected; after a failed command the run can only return.
PipelineStepsOnSuccess(c, name, expected) ==
  (op[c].name = name /\ op'[c].name = name)
  => /\ issued'[c] # issued[c]
          => /\ cmds[c][1].done
             /\ isSuccess(cmds[c][1].res)
             /\ issued'[c] = Append(issued[c], expected[Len(issued[c]) + 1])
     /\ (cmds[c][1].done /\ ~isSuccess(cmds[c][1].res))
          => /\ issued'[c] = issued[c]
             /\ pc'[c] = "returned"
             /\ ret'[c] = cmds[c][1].res

\* C8: createNatNfTable issues exactly 5 commands in this order: add table ip
\* nat, then add chain PREROUTING (nat, prerouting, -100), INPUT (nat, input,
\* 100), OUTPUT (nat, output, -100), POSTROUTING (nat, postrouting, 100); when
\* the k-th command fails no later command is issued and the operation
\* returns the failure.
C8_NatBuilderOrder ==
  /\ [](\A c \in Callers : PipelineInOrder(c, "createNatNfTable", ExpectedNat))
  /\ [][\A c \in Callers : PipelineStepsOnSuccess(c, "createNatNfTable", ExpectedNat)]_vars

\* createNatNfTable has returned the failure of its 2nd command; the 3rd to
\* 5th were not issued and their chains do not exist
C8_Witness ==
  \E c \in Callers :
    /\ op[c].name = "createNatNfTable"
    /\ pc[c] = "returned"
    /\ ~isSuccess(ret[c])
    /\ issued[c] = SubSeq(ExpectedNat, 1, 2)
    /\ fwAtCall[c] = << >>
    /\ DOMAIN fwChains = {}
    /\ fwTables = {<<"ip", "nat">>}

\* C9: initializeStandardTables runs the nat builder, then the filter builder,
\* then the mangle builder; a builder starts only after the one before it has
\* succeeded; on the first failing command it returns that failure and issues
\* no further command; when all commands succeed it returns success.
C9_StandardTablesOrder ==
  /\ [](\A c \in Callers :
          PipelineInOrder(c, "initializeStandardTables",
                          ExpectedNat \o ExpectedFilter \o ExpectedMangle))
  /\ [][\A c \in Callers :
          PipelineStepsOnSuccess(c, "initializeStandardTables",
                                 ExpectedNat \o ExpectedFilter \o ExpectedMangle)]_vars

\* initializeStandardTables has returned a failure from inside the filter
\* builder: the nat builder is complete and no command of the mangle builder
\* was issued
C9_Witness ==
  \E c \in Callers :
    /\ op[c].name = "initializeStandardTables"
    /\ pc[c] = "returned"
    /\ ~isSuccess(ret[c])
    /\ Len(issued[c]) = Len(ExpectedNat) + 2
    /\ fwAtCall[c] = << >>
    /\ <<"ip", "filter">> \in fwTables
    /\ <<"ip", "mangle">> \notin fwTables
    /\ \A k \in 1..Len(issued[c]) : issued[c][k][7] # "mangle"

\* ========================================================================
\* Properties of the NAT rules (checked under SpecNat)
\* ========================================================================

\* the rule was stored by the engine while the model ran
CreatedRule(r) == r.handle > MaxNatRules

\* the list command of the one-listing operation of c ran without error
ListedOk(c) == Len(cmds[c]) = 1 /\ cmds[c][1].done /\ isSuccess(cmds[c][1].res)

\* c has called getRuleFromChain on PREROUTING with the expressions
\* [match ip daddr == 127.0.0.1, dnat addr 127.0.0.1], without a counter, and
\* the chain holds a rule created from `ip daddr 127.0.0.1 counter dnat to
\* 127.0.0.1`
LooksForCreatedRule(c) ==
  /\ pc[c] = "returned"
  /\ op[c].name = "getRuleFromChain"
  /\ OpLoc(c) = PreLoc
  /\ op[c].rule.expr = <<MatchDaddr("127.0.0.1"), DnatAddr("127.0.0.1")>>
  /\ ListedOk(c)
  /\ \E r \in Range(ChainNow(c)) :
       /\ CreatedRule(r)
       /\ r.expr = RuleExprOf(dnatRuleText("127.0.0.1", "127.0.0.1", ""))

\* C11: once a rule was created in ip/nat/PREROUTING from the text `ip daddr
\* A counter dnat to B` (it has a counter), getRuleFromChain with a
\* specification of the same place, any handle and the expressions [match ip
\* daddr == A, dnat addr B] (no counter) whose listing ran succeeds, and
\* returns a rule of the chain whose expressions hold that match and that dnat.
C11_CreatedRuleIsFound ==
  \A c \in Callers :
    LooksForCreatedRule(c)
      => /\ isSuccess(ret[c])
         /\ ret[c].output \in Range(ChainNow(c))
         /\ MatchDaddr("127.0.0.1") \in Range(ret[c].output.expr)
         /\ DnatAddr("127.0.0.1") \in Range(ret[c].output.expr)

\* the created rule is the one returned, under a specification that has
\* another handle and no counter
C11_Witness ==
  \E c \in Callers :
    /\ LooksForCreatedRule(c)
    /\ isSuccess(ret[c])
    /\ CreatedRule(ret[c].output)
    /\ ret[c].output.handle # op[c].rule.handle
    /\ CounterExpr(0, 0) \in Range(ret[c].output.expr)
    /\ CounterExpr(0, 0) \notin Range(op[c].rule.expr)

\* c has called getDNatRuleFromChain, its listing ran without error and it
\* has returned
DNatLookupReturned(c) ==
  /\ pc[c] = "returned"
  /\ op[c].name = "getDNatRuleFromChain"
  /\ ListedOk(c)

\* the rule has a match of ip daddr with sourceAddr at i and a dnat to
\* destAddr at j
MatchAndDnatAt(r, sourceAddr, destAddr, i, j) ==
  /\ r.expr[i] = MatchDaddr(sourceAddr)
  /\ r.expr[j] = DnatAddr(destAddr)

HasMatchAndDnat(r, sourceAddr, destAddr) ==
  \E i, j \in 1..Len(r.expr) : MatchAndDnatAt(r, sourceAddr, destAddr, i, j)

\* the places in the chain of c of the rules that have both
DNatPlaces(c) ==
  { k \in 1..Len(ChainNow(c)) : HasMatchAndDnat(ChainNow(c)[k], op[c].args[1], op[c].args[2]) }

\* C12: getDNatRuleFromChain(family, table, chain, sourceAddr, destAddr)
\* returns the first rule, in the order of the listing, whose expressions
\* hold both a match of payload ip daddr with sourceAddr and a dnat to
\* destAddr, whichever comes first and whatever lies between them; when no
\* rule has both it returns a success without output, not a failure.
C12_FirstRuleWithMatchAndDnat ==
  \A c \in Callers :
    DNatLookupReturned(c)
      => IF DNatPlaces(c) = {}
         THEN ret[c] = createSuccess(Undefined)
         ELSE \E k \in DNatPlaces(c) :
                /\ \A k2 \in DNatPlaces(c) : k <= k2
                /\ ret[c] = createSuccess(ChainNow(c)[k])

\* the rule returned has its dnat before its match with a counter between
\* them, and stands behind a rule that has the match but another dnat
C12_Witness ==
  \E c \in Callers :
    /\ DNatLookupReturned(c)
    /\ DNatPlaces(c) # {}
    /\ 1 \notin DNatPlaces(c)
    /\ hasMatchingSource(ChainNow(c)[1], op[c].args[1])
    /\ \E i, j \in 1..Len(ret[c].output.expr) :
         /\ j + 1 < i
         /\ MatchAndDnatAt(ret[c].output, op[c].args[1], op[c].args[2], i, j)

\* the two commands of createDoubleNatRule(publicAddr, privateAddr, natAddr)
ExpectedDoubleNat(publicAddr, privateAddr, natAddr) ==
  << NftAdd(<<"rule", "ip", "nat", "PREROUTING",
              "ip daddr " \o publicAddr \o " counter dnat to " \o privateAddr>>),
     NftAdd(<<"rule", "ip", "nat", "POSTROUTING",
              "ip saddr " \o privateAddr \o " counter snat to " \o natAddr>>) >>

ExpectedOfDoubleNat(c) == ExpectedDoubleNat(op[c].args[1], op[c].args[2], op[c].args[3])

\* C13: createDoubleNatRule(publicAddr, privateAddr, natAddr) first issues
\* the creation of the DNAT rule (daddr publicAddr to privateAddr, in
\* ip/nat/PREROUTING) and only after that has succeeded the creation of the
\* SNAT rule (saddr privateAddr to natAddr, in ip/nat/POSTROUTING); when the
\* DNAT creation fails, its failure is returned and the SNAT creation is never
\* issued.
C13_DnatThenSnat ==
  /\ [](\A c \in Callers :
          PipelineInOrder(c, "createDoubleNatRule", ExpectedOfDoubleNat(c)))
  /\ [][\A c \in Callers :
          PipelineStepsOnSuccess(c, "createDoubleNatRule", ExpectedOfDoubleNat(c))]_vars

\* createDoubleNatRule has returned the failure of the DNAT creation: the SNAT
\* creation was not issued and POSTROUTING is as it was
C13_Witness ==
  \E c \in Callers :
    /\ op[c].name = "createDoubleNatRule"
    /\ pc[c] = "returned"
    /\ ~isSuccess(ret[c])
    /\ issued[c] = <<ExpectedOfDoubleNat(c)[1]>>
    /\ fwChains[PostLoc] = fwAtCall[c][PostLoc]

\* ========================================================================
\* Properties of the command executor (checked under SpecExec)
\* ========================================================================

\* C14: every operation of the nftables module completes with a tagged
\* success or failure result whatever its external command does (any text on
\* stdout, any text on stderr, or an exception of the execution); no exception
\* reaches the caller of an operation.
C14_EveryOutcomeIsTagged ==
  exPc = "done"
    => /\ IsResult(exOut.createRule)
       /\ IsResult(exOut.isNftInstalled)
       /\ IsResult(exOut.getTables)
       /\ IsResult(exOut.getRules)

\* the entries of a listing whose tag is rule
RuleEntries(listing) == SelectSeq(listing.nftables, LAMBDA entry : "rule" \in DOMAIN entry)

\* getTables has returned the listing of exProc
TablesListed == exPc = "done" /\ IsResult(exOut.getTables) /\ isSuccess(exOut.getTables)

\* C15: when the listing of the tables succeeded, getRules returns exactly
\* the entries of the listing whose tag is rule, and every element it returns
\* is a rule record that satisfies isNftRule.
C15_GetRulesReturnsRuleEntries ==
  TablesListed
    => /\ isSuccess(exOut.getRules)
       /\ Len(exOut.getRules.output) = Len(RuleEntries(exOut.getTables.output))
       /\ \A i \in 1..Len(exOut.getRules.output) :
            /\ exOut.getRules.output[i] = RuleEntries(exOut.getTables.output)[i].rule
            /\ isNftRule(exOut.getRules.output[i])

\* C19: the executor returns a failure whenever the process wrote to stderr,
\* whatever its exit code and its stdout, and a failure when running the
\* process throws; it returns a success, carrying the text of stdout, only
\* when stderr is empty and nothing was thrown.
C19_StderrOrThrowIsFailure ==
  exPc = "done"
    => /\ exProc.threw => exOut.runCommand = createFail(exProc.error)
       /\ (~exProc.threw /\ exProc.stderr # "") => exOut.runCommand = createFail(exProc.stderr)
       /\ isSuccess(exOut.runCommand) <=> (~exProc.threw /\ exProc.stderr = "")
       /\ isSuccess(exOut.runCommand) => exOut.runCommand.output = exProc.stdout

\* the process exited with 0 and wrote to stdout and to stderr: a failure
C19_Witness ==
  /\ exPc = "done"
  /\ ~exProc.threw
  /\ exProc.code = 0
  /\ exProc.stdout # Text("")
  /\ exProc.stderr # ""
  /\ ~isSuccess(exOut.runCommand)
  /\ exOut.runCommand.error = exProc.stderr

\* ========================================================================
\* Properties of the queries (checked under SpecNat)
\* ========================================================================

QueryOps ==
  {"getTables", "getTable", "getChain", "getRules", "getRulesFromTable", "getRulesFromChain",
   "getRuleByHandle", "getRuleFromChain", "getDNatRuleFromChain"}

\* the rules of all chains of a table, as the listing of the table orders them
RECURSIVE RulesOfTable(_, _, _)
RulesOfTable(family, table, names) ==
  IF names = <<>> THEN <<>>
  ELSE LET loc == <<family, table, Head(names)>>
       IN (IF loc \in DOMAIN fwChains THEN fwChains[loc].rules ELSE <<>>)
          \o RulesOfTable(family, table, Tail(names))

\* a query of c has issued one command, a list command
OneListCommand(c) ==
  /\ Len(issued[c]) = 1
  /\ SubSeq(issued[c][1], 1, 4) = <<"sudo", "nft", "-j", "list">>

\* what a query of c that has returned a success holds is the firewall as it
\* is now, rules created or deleted by earlier operations included
ReflectsFirewall(c) ==
  (pc[c] = "returned" /\ isSuccess(ret[c]))
    => /\ op[c].name = "getTables" => ret[c].output = TablesListing(fwTables)
       /\ op[c].name = "getTable"
            => ret[c].output = TableListing(op[c].family, op[c].table, fwChains)
       /\ op[c].name = "getChain"
            => ret[c].output = ChainListing(OpLoc(c), fwChains[OpLoc(c)])
       /\ op[c].name = "getRulesFromTable"
            => ret[c].output = RulesOfTable(op[c].family, op[c].table, ChainOrder)
       /\ op[c].name = "getRulesFromChain" => ret[c].output = ChainNow(c)
       /\ op[c].name \in {"getRuleByHandle", "getRuleFromChain"}
            => ret[c].output \in Range(ChainNow(c))

HandleLookupReturned(c) ==
  /\ pc[c] = "returned"
  /\ op[c].name = "getRuleByHandle"

\* C17: getRuleByHandle returns a success with the rule of the listing of the
\* chain whose handle is the one asked for, and the failure "Rule not found"
\* when the listing succeeded and holds no rule with that handle; a failed
\* listing is returned as that failure.
C17_RuleByHandle ==
  \A c \in Callers :
    HandleLookupReturned(c)
      => IF ~ListedOk(c)
         THEN ret[c] = cmds[c][1].res /\ ~isSuccess(ret[c])
         ELSE IF \E r \in Range(ChainNow(c)) : r.handle = op[c].args[1]
         THEN /\ isSuccess(ret[c])
              /\ ret[c].output \in Range(ChainNow(c))
              /\ ret[c].output.handle = op[c].args[1]
         ELSE ret[c] = createFail("Rule not found")

\* the chain was listed, holds rules, none of them with the handle asked
\* for: "Rule not found"
C17_Witness ==
  \E c \in Callers :
    /\ HandleLookupReturned(c)
    /\ ListedOk(c)
    /\ ChainNow(c) # <<>>
    /\ \A r \in Range(ChainNow(c)) : r.handle # op[c].args[1]
    /\ ret[c] = createFail("Rule not found")

\* ========================================================================
\* Properties of the installation (checked under SpecProv)
\* ========================================================================

InInstallIfMissing(c) == op[c].name = "installIfNftMissing"

\* the check of c has completed with a success whose output is found
CheckFound(c, found) ==
  /\ step[c] = 1
  /\ cmds[c][1].done
  /\ isSuccess(cmds[c][1].res)
  /\ cmds[c][1].res.output = found

\* the commands of installIfNftMissing and its result, once it has returned
InstallOutcome(c) ==
  /\ issued[c] \in { <<<<"which", "nft">>>>,
                     << <<"which", "nft">>, <<"sudo", "apt-get", "install", "nftables", "-y">> >> }
  /\ (pc[c] = "returned" /\ Len(issued[c]) = 1)
       => \/ ~isSuccess(cmds[c][1].res) /\ ret[c] = cmds[c][1].res
          \/ CheckFound(c, TRUE) /\ ret[c] = createSuccess([performedInstall |-> FALSE])
  /\ (pc[c] = "returned" /\ Len(issued[c]) = 2)
       => \/ ~isSuccess(cmds[c][1].res) /\ ret[c] = cmds[c][1].res
          \/ isSuccess(cmds[c][1].res) /\ ret[c] = createSuccess([performedInstall |-> TRUE])

\* the installation is issued only after a check that succeeded with an empty
\* output, and such a check is followed by the installation
InstallOnlyWhenMissing(c) ==
  /\ issued'[c] # issued[c] => CheckFound(c, FALSE)
  /\ (pc[c] = "await" /\ pc'[c] = "returned" /\ step[c] = 1) => ~CheckFound(c, FALSE)

\* C18: installIfNftMissing runs `which nft` first. When the check succeeds
\* with a non-empty output it returns {performedInstall: false} and the
\* installation is never issued; when it succeeds with an empty output the
\* installation is issued exactly once and the result is {performedInstall:
\* true} if it succeeds and its failure otherwise; when the check fails, that
\* failure is returned and the installation is never issued.
C18_InstallOnlyIfMissing ==
  /\ [](\A c \in Callers : InInstallIfMissing(c) => InstallOutcome(c))
  /\ [][\A c \in Callers :
          (InInstallIfMissing(c) /\ op'[c] = op[c]) => InstallOnlyWhenMissing(c)]_vars

\* nft was missing, the installation ran and installIfNftMissing has returned
\* {performedInstall: true}
C18_Witness ==
  \E c \in Callers :
    /\ InInstallIfMissing(c)
    /\ pc[c] = "returned"
    /\ Len(issued[c]) = 2
    /\ ret[c] = createSuccess([performedInstall |-> TRUE])
    /\ nftInstalled

\* ========================================================================
\* Properties of the sequential pipelines (checked under SpecPipe)
\* ========================================================================

SequentialPipelines ==
  {"createNatNfTable", "createFilterNfTable", "createMangleNfTable",
   "initializeStandardTables", "deleteRuleFromChain", "createDoubleNatRule"}

\* the commands of c that have been issued and have not completed
InFlight(c) == { i \in 1..Len(cmds[c]) : ~cmds[c][i].done }

\* a step of c issues a command only when the command before it has
\* completed with a success, and one command at a time
OneMoreAfterSuccess(c) ==
  issued'[c] # issued[c]
    => /\ InFlight(c) = {}
       /\ \A i \in 1..Len(cmds[c]) : isSuccess(cmds[c][i].res)
       /\ Len(issued'[c]) = Len(issued[c]) + 1
       /\ SubSeq(issued'[c], 1, Len(issued[c])) = issued[c]

\* C20: in every sequential pipeline (createNatNfTable, createFilterNfTable,
\* createMangleNfTable, initializeStandardTables, deleteRuleFromChain,
\* createDoubleNatRule) the command of a step is issued only after the command
\* of the step before it has completed, so at most one command of a run is in
\* flight at any time, and it is never issued when the step before it failed.
C20_OneCommandAtATime ==
  /\ [](\A c \in Callers :
          op[c].name \in SequentialPipelines => Cardinality(InFlight(c)) <= 1)
  /\ [][\A c \in Callers :
          (op[c].name \in SequentialPipelines /\ op'[c] = op[c]) => OneMoreAfterSuccess(c)]_vars

\* deleteRuleFromChain has listed the chain, found the rule that
\* createDoubleNatRule created, and its deletion is the one command in flight
C20_Witness ==
  \E c \in Callers :
    /\ op[c].name = "deleteRuleFromChain"
    /\ step[c] = 2
    /\ Len(issued[c]) = 2
    /\ InFlight(c) = {1}
    /\ cmds[c][1].argv = issued[c][2]

\* ========================================================================
\* Which failure the fan-out reports (checked under SpecDel)
\* ========================================================================

\* the rules equal to the specification of c, in the order of the chain when
\* c was called
MatchingRulesAtCall(c) ==
  SelectSeq(ChainAtCall(c), LAMBDA r : areRulesEqual(r, op[c].rule))

\* the places, in the fan-out of c, of the deletions that failed
FailedDeletions(c) == { i \in 1..Len(cmds[c]) : ~isSuccess(cmds[c][i].res) }

\* the fan-out of c has returned and some deletion failed
FanOutFailed(c) == FannedOut(c) /\ pc[c] = "returned" /\ FailedDeletions(c) # {}

\* C21: when deletions of the fan-out fail, deleteAllMatchingRulesFromChain
\* returns the failure of the failing rule that comes first in the list of
\* matching rules, whatever the order in which the deletions completed.
C21_FirstFailureInListingOrder ==
  \A c \in Callers :
    FanOutFailed(c)
    => LET matchingRules == MatchingRulesAtCall(c)
           k == CHOOSE i \in FailedDeletions(c) : \A j \in FailedDeletions(c) : i <= j
       IN /\ Len(cmds[c]) = Len(matchingRules)
          /\ \A i \in 1..Len(cmds[c]) :
               cmds[c][i].argv = DeleteCommand(c, matchingRules[i].handle)
          /\ ret[c] = cmds[c][k].res

\* the first listed deletion succeeded and two later ones failed in different
\* ways: the failure returned is the one of the earlier of the two
C21_Witness ==
  \E c \in Callers :
    /\ FanOutFailed(c)
    /\ \E k, j \in FailedDeletions(c) :
         /\ 1 < k /\ k < j
         /\ \A i \in 1..(k - 1) : isSuccess(cmds[c][i].res)
         /\ cmds[c][k].res # cmds[c][j].res
         /\ ret[c] = cmds[c][k].res
         /\ ret[c] # cmds[c][j].res

\* ========================================================================
\* Deleting one rule by its specification (checked under SpecNat)
\* ========================================================================

InDeleteRuleFromChain(c) == op[c].name = "deleteRuleFromChain"

\* the find step of c has failed: the listing failed, or no listed rule equals
\* the specification
FindFailed(c) ==
  /\ InDeleteRuleFromChain(c)
  /\ pc[c] = "returned"
  /\ step[c] = 1

\* C22: deleteRuleFromChain issues a delete command only when its find step
\* succeeded, and then exactly one, for the handle of the first listed rule
\* equal to the specification; a failed find step is returned without any
\* delete, and the result of the delete is the result of the operation.
C22_DeleteOnlyTheRuleFound ==
  \A c \in Callers :
    InDeleteRuleFromChain(c)
    => /\ Len(DeletesIssued(c)) <= 1
       /\ step[c] = 1 => DeletesIssued(c) = <<>>
       /\ step[c] = 2
            => /\ MatchingRulesAtCall(c) # <<>>
               /\ issued[c] = << getChainArgv(op[c].family, op[c].table, op[c].chain),
                                 DeleteCommand(c, MatchingRulesAtCall(c)[1].handle) >>
               /\ Len(cmds[c]) = 1
               /\ cmds[c][1].argv = issued[c][2]
       /\ FindFailed(c)
            => /\ ~isSuccess(ret[c])
               /\ IF isSuccess(cmds[c][1].res)
                  THEN /\ MatchingRulesAtCall(c) = <<>>
                       /\ ret[c] = createFail("Rule not found")
                  ELSE ret[c] = cmds[c][1].res
               /\ fwChains = fwAtCall[c]
       /\ (pc[c] = "returned" /\ step[c] = 2) => ret[c] = cmds[c][1].res

\* two listed rules equal the specification: one delete was issued, for the
\* first of them, it succeeded, and the second rule is still in the chain
C22_Witness ==
  \E c \in Callers :
    /\ InDeleteRuleFromChain(c)
    /\ pc[c] = "returned"
    /\ step[c] = 2
    /\ Len(MatchingRulesAtCall(c)) >= 2
    /\ Len(DeletesIssued(c)) = 1
    /\ isSuccess(ret[c])
    /\ MatchingHandles(c, ChainNow(c)) =
         MatchingHandles(c, ChainAtCall(c)) \ {MatchingRulesAtCall(c)[1].handle}

\* ========================================================================
\* The filter and mangle builders (checked under SpecProv)
\* ========================================================================

\* the chain at loc exists as the command argv defined it
ChainDefinedBy(loc, argv) ==
  /\ loc \in DOMAIN fwChains
  /\ fwChains[loc].def = argv[9]

\* C23: createFilterNfTable issues, in order, add table ip filter and add
\* chain INPUT, FORWARD, OUTPUT (type filter, hook of the same name, priority
\* 0); createMangleNfTable issues, in order, add table ip mangle and add chain
\* PREROUTING, INPUT, FORWARD, OUTPUT, POSTROUTING (type filter, hook of the
\* same name, priority -150); every chain has policy accept, and after a
\* failed step no later step is issued.
C23_FilterAndMangleBuilderOrder ==
  /\ [](\A c \in Callers :
          /\ PipelineInOrder(c, "createFilterNfTable", ExpectedFilter)
          /\ PipelineInOrder(c, "createMangleNfTable", ExpectedMangle))
  /\ [][\A c \in Callers :
          /\ PipelineStepsOnSuccess(c, "createFilterNfTable", ExpectedFilter)
          /\ PipelineStepsOnSuccess(c, "createMangleNfTable", ExpectedMangle)]_vars

\* The filter builder has run to its end, and after it the mangle builder has
\* returned the failure of its 3rd command: the filter chains and mangle
\* PREROUTING exist as defined, the 4th to 6th commands were not issued.
C23_Witness ==
  \E c \in Callers :
    /\ op[c].name = "createMangleNfTable"
    /\ pc[c] = "returned"
    /\ ~isSuccess(ret[c])
    /\ issued[c] = SubSeq(ExpectedMangle, 1, 3)
    /\ \A k \in 2..4 :
         ChainDefinedBy(<<"ip", "filter", ExpectedFilter[k][8]>>, ExpectedFilter[k])
    /\ ChainDefinedBy(<<"ip", "mangle", "PREROUTING">>, ExpectedMangle[2])
    /\ { l \in DOMAIN fwChains : l[2] = "mangle" } = {<<"ip", "mangle", "PREROUTING">>}

\* the table or chain that the add command argv creates is in the firewall
EffectPresent(argv) ==
  IF argv[5] = "table"
  THEN <<argv[6], argv[7]>> \in fwTables
  ELSE ChainDefinedBy(<<argv[6], argv[7], argv[8]>>, argv)

\* a builder run by c has returned a failure
BuilderFailed(c) ==
  /\ op[c].name \in Builders
  /\ pc[c] = "returned"
  /\ ~isSuccess(ret[c])

\* C24: when step k of a standard-table builder or of initializeStandardTables
\* fails, the failure returned is the one of step k, what the steps before k
\* created is still in the firewall, and the builder has issued nothing but
\* add commands: no delete, no undo.
C24_NoRollbackInBuilders ==
  \A c \in Callers :
    op[c].name \in Builders
    => /\ \A k \in 1..Len(issued[c]) : issued[c][k][4] = "add"
       /\ BuilderFailed(c)
            => /\ cmds[c][1].argv = issued[c][Len(issued[c])]
               /\ ret[c] = cmds[c][1].res
               /\ \A j \in 1..(Len(issued[c]) - 1) : EffectPresent(issued[c][j])
               /\ \A l \in DOMAIN fwAtCall[c] :
                    l \in DOMAIN fwChains /\ fwChains[l] = fwAtCall[c][l]

\* createNatNfTable, called on an empty firewall, has returned the failure of
\* its 4th command: the table and the chains of the 2nd and 3rd command exist
C24_Witness ==
  \E c \in Callers :
    /\ BuilderFailed(c)
    /\ op[c].name = "createNatNfTable"
    /\ Len(issued[c]) = 4
    /\ fwAtCall[c] = << >>
    /\ fwTables = {<<"ip", "nat">>}
    /\ DOMAIN fwChains = {<<"ip", "nat", "PREROUTING">>, <<"ip", "nat", "INPUT">>}

\* ========================================================================
\* The rule filter of the scoped queries (checked under SpecExec)
\* ========================================================================

\* the list command printed the JSON text of a listing and nothing on stderr
ListingPrinted ==
  /\ exPc = "done"
  /\ ~exProc.threw
  /\ exProc.stderr = ""
  /\ IsJSONText(exProc.stdout)

\* entry is tagged rule and its record has the keys of a rule
CarriesRule(entry) ==
  /\ DOMAIN entry = {"rule"}
  /\ {"family", "table", "chain", "handle", "expr"} \subseteq DOMAIN entry.rule

\* the rule records of the entries, in order
RECURSIVE RuleRecords(_)
RuleRecords(entries) ==
  IF entries = <<>> THEN <<>>
  ELSE (IF CarriesRule(Head(entries)) THEN <<Head(entries).rule>> ELSE <<>>)
       \o RuleRecords(Tail(entries))

\* C25: from a listing that was printed, getRulesFromChain and
\* getRulesFromTable return a success with, in listing order, exactly the rule
\* records of the entries tagged rule whose record passes isNftRule; entries
\* of any other tag are left out and cause no failure.
C25_ScopedQueriesReturnRuleRecords ==
  ListingPrinted
    => LET entries == exProc.stdout.json.nftables
       IN /\ exOut.getRulesFromChain = createSuccess(RuleRecords(entries))
          /\ exOut.getRulesFromTable = createSuccess(RuleRecords(entries))

\* a listing of two rules with an entry of another tag between them, the
\* rule of the higher handle first: both rules are returned, in that order
C25_Witness ==
  /\ ListingPrinted
  /\ LET entries == exProc.stdout.json.nftables
     IN /\ Len(entries) = 3
        /\ CarriesRule(entries[1])
        /\ ~CarriesRule(entries[2])
        /\ CarriesRule(entries[3])
        /\ entries[1].rule.handle > entries[3].rule.handle
        /\ exOut.getRulesFromTable.output = <<entries[1].rule, entries[3].rule>>
        /\ exOut.getRulesFromChain.output = <<entries[1].rule, entries[3].rule>>

\* ========================================================================
\* Two concurrent calls of deleteAllMatchingRulesFromChain
\* ========================================================================

\* PREROUTING holds at most MaxRaceRules rules at the start
MaxRaceRules == 2

\* the sequences of at most MaxRaceRules rules of PREROUTING, with handles
\* 1, 2, ...
RaceChains ==
  UNION { { [i \in 1..n |-> NftRule(PreLoc[1], PreLoc[2], PreLoc[3], i, es[i])] :
              es \in [1..n -> StoredExprs] } :
          n \in 0..MaxRaceRules }

\* the rule specifications the two callers may pass
RaceSpecs == { NftRule(PreLoc[1], PreLoc[2], PreLoc[3], 1, e) : e \in SpecExprs }

InitRace ==
  /\ ruleA = NoRule
  /\ ruleB = NoRule
  /\ eqPc = "done"
  /\ eqOut = [ab |-> TRUE, ba |-> TRUE]
  /\ fwTables = {<<"ip", "nat">>}
  /\ \E rules \in RaceChains :
       fwChains = (PreLoc :> [def |-> createNfTableChain("ip", "nat", "PREROUTING", "nat", "prerouting", -100)[9],
                              rules |-> rules])
                  @@ (PostLoc :> [def |-> createNfTableChain("ip", "nat", "POSTROUTING", "nat", "postrouting", 100)[9],
                                  rules |-> PostRules])
  /\ fwNextHandle = MaxHandle + 2
  /\ nftInstalled = TRUE
  /\ ExIdle
  /\ CallersIdle({"c1", "c2"})

\* caller c calls deleteAllMatchingRulesFromChain on PREROUTING, with the
\* specification the other caller has passed if it has called already
CallDeleteAllOnSameChain(c, rule) ==
  /\ \A d \in Callers \ {c} : op[d] = NoOp \/ op[d].rule = rule
  /\ CallDeleteAllMatchingRulesFromChain(c, PreLoc[1], PreLoc[2], PreLoc[3], rule)

\* each caller calls once; the commands of the two calls complete in any order
NextRace ==
  \E c \in Callers :
    \/ \E rule \in RaceSpecs : CallDeleteAllOnSameChain(c, rule)
    \/ \E i \in 1..MaxRaceRules, outcome \in Outcomes : CommandCompletes(c, i, outcome)
    \/ DeleteAllListed(c)
    \/ DeleteAllSettled(c)

SpecRace == InitRace /\ [][NextRace]_vars

\* both calls have returned
BothReturned ==
  \A c \in Callers : pc[c] = "returned" /\ InDeleteAll(c)

\* the rules of PREROUTING before either call
ChainAtFirstCall ==
  LET first == CHOOSE c \in Callers :
                 \A d \in Callers : Len(ChainAtCall(c)) >= Len(ChainAtCall(d))
  IN ChainAtCall(first)

\* the handles of the rules of PREROUTING that equalled the specification
\* before either call
MatchingAtFirstCall ==
  { r.handle : r \in { x \in Range(ChainAtFirstCall) : areRulesEqual(x, op["c1"].rule) } }

\* the delete commands, of either caller, that succeeded on handle h
SuccessfulDeletes(h) ==
  { <<c, i>> \in { <<d, j>> \in Callers \X (1..MaxRaceRules + 1) :
                     step[d] = 2 /\ j <= Len(cmds[d]) } :
      /\ cmds[c][i].argv = DeleteCommand(c, h)
      /\ cmds[c][i].done
      /\ isSuccess(cmds[c][i].res) }

\* the delete command cmd ran and the engine did not find its handle
HitDeletedHandle(cmd) ==
  /\ cmd.done
  /\ ~isSuccess(cmd.res)
  /\ cmd.res.error = "Error: No such file or directory: " \o CmdText(cmd.argv)

\* every command of c ran on the engine: none was refused by the host, none
\* failed to start
Undisturbed(c) ==
  /\ step[c] = 1 => isSuccess(cmds[c][1].res)
  /\ step[c] = 2 => \A i \in 1..Len(cmds[c]) :
                      isSuccess(cmds[c][i].res) \/ HitDeletedHandle(cmds[c][i])

\* no rule that differs from the specification was deleted, and no rule was
\* deleted twice
OnlyMatchesDeleted ==
  /\ SelectSeq(ChainNow("c1"), LAMBDA r : ~areRulesEqual(r, op["c1"].rule))
       = SelectSeq(ChainAtFirstCall, LAMBDA r : ~areRulesEqual(r, op["c1"].rule))
  /\ \A h \in 1..MaxHandle + 1 :
       /\ Cardinality(SuccessfulDeletes(h)) <= 1
       /\ SuccessfulDeletes(h) # {} => h \in MatchingAtFirstCall
  /\ fwChains[PostLoc].rules = PostRules

\* every rule equal to the specification was deleted, once
AllMatchesDeleted ==
  /\ MatchingHandles("c1", ChainNow("c1")) = {}
  /\ \A h \in MatchingAtFirstCall : Cardinality(SuccessfulDeletes(h)) = 1

\* a caller whose delete hit a handle that was gone, or whose listing held no
\* rule equal to the specification, has returned a failure
LosersFail ==
  \A c \in Callers :
    /\ (step[c] = 2 /\ \E i \in 1..Len(cmds[c]) : HitDeletedHandle(cmds[c][i]))
         => ~isSuccess(ret[c])
    /\ (step[c] = 1 /\ isSuccess(cmds[c][1].res))
         => ret[c] = createFail("No matching rules found")

HandlesOf(rules) == { rules[i].handle : i \in 1..Len(rules) }

\* the handles that have left the chain of c since c was called
GoneHandles(c) == HandlesOf(ChainAtCall(c)) \ HandlesOf(ChainNow(c))

\* C27: deleteAllMatchingRulesFromChain issues delete commands only for
\* handles of listed rules equal to the specification, addressed to the
\* family, table and chain of its arguments; the rules of the chain that
\* differ from the specification and the rules of every other chain stay as
\* they were, whatever becomes of the deletions.
C27_DeleteAllFrame ==
  \A c \in Callers :
    InDeleteAll(c)
    => /\ step[c] = 1
            => /\ issued[c] = <<getChainArgv(op[c].family, op[c].table, op[c].chain)>>
               /\ ChainNow(c) = ChainAtCall(c)
       /\ step[c] = 2
            => LET matching == MatchingHandles(c, ChainAtCall(c))
                   allowed == { DeleteCommand(c, h) : h \in matching }
                   gone == GoneHandles(c)
               IN /\ \A k \in 2..Len(issued[c]) : issued[c][k] \in allowed
                  /\ gone \subseteq matching
                  /\ ChainNow(c) = SelectSeq(ChainAtCall(c), LAMBDA r : r.handle \notin gone)
       /\ \A l \in DOMAIN fwChains :
            l # OpLoc(c) => fwChains[l] = fwAtCall[c][l]
       /\ DOMAIN fwChains = DOMAIN fwAtCall[c]

\* a call on PREROUTING, which held a rule that differs from the
\* specification, while POSTROUTING holds a rule with the expressions of the
\* specification: one deletion succeeded, one failed, the call has returned
C27_Witness ==
  \E c \in Callers :
    /\ PartialFailure(c)
    /\ OpLoc(c) = PreLoc
    /\ \E r \in Range(ChainAtCall(c)) : ~areRulesEqual(r, op[c].rule)
    /\ \A r \in Range(ChainAtCall(c)) : ~areRulesEqual(r, op[c].rule) => r \in Range(ChainNow(c))
    /\ Len(ChainNow(c)) < Len(ChainAtCall(c))
    /\ \E r \in Range(fwChains[PostLoc].rules) :
         filterCounters(r.expr) = filterCounters(op[c].rule.expr)

\* ========================================================================
\* Rules that carry a comment or an index
\* ========================================================================

\* PREROUTING holds at most MaxOptRules rules at the start
MaxOptRules == 2

\* a rule with the optional field comment
WithComment(rule, comment) == rule @@ [comment |-> comment]

\* a rule with the optional field index
WithIndex(rule, index) == rule @@ [index |-> index]

\* the forms of a rule: without optional fields, with a comment and an index,
\* with another comment, with an index alone
OptForms(rule) ==
  { rule,
    WithIndex(WithComment(rule, "web"), 0),
    WithComment(rule, "db"),
    WithIndex(rule, 1) }

\* the sequences of at most MaxOptRules rules of PREROUTING in these forms,
\* with handles 1, 2, ...
OptChains ==
  UNION { { [i \in 1..n |-> rs[i]] :
              rs \in { f \in [1..n -> UNION { OptForms(NftRule(PreLoc[1], PreLoc[2], PreLoc[3], h, e)) :
                                              h \in 1..n, e \in StoredExprs }] :
                         \A i \in 1..n : f[i].handle = i } } :
          n \in 0..MaxOptRules }

\* the rule specifications passed by the caller: written by hand, or taken
\* from a listing with the comment and the index it had there
OptSpecs ==
  UNION { { NftRule(PreLoc[1], PreLoc[2], PreLoc[3], 1, e),
            WithIndex(WithComment(NftRule(PreLoc[1], PreLoc[2], PreLoc[3], 1, e), "web"), 0) } :
          e \in SpecExprs }

InitOpt ==
  /\ ruleA = NoRule
  /\ ruleB = NoRule
  /\ eqPc = "done"
  /\ eqOut = [ab |-> TRUE, ba |-> TRUE]
  /\ fwTables = {<<"ip", "nat">>}
  /\ \E rules \in OptChains :
       fwChains = (PreLoc :> [def |-> createNfTableChain("ip", "nat", "PREROUTING", "nat", "prerouting", -100)[9],
                              rules |-> rules])
  /\ fwNextHandle = MaxOptRules + 1
  /\ nftInstalled = TRUE
  /\ ExIdle
  /\ CallersIdle({"c1"})

NextOpt ==
  \E c \in Callers :
    \/ \E rule \in OptSpecs : CallGetRuleFromChain(c, PreLoc[1], PreLoc[2], PreLoc[3], rule)
    \/ \E rule \in OptSpecs : CallDeleteRuleFromChain(c, PreLoc[1], PreLoc[2], PreLoc[3], rule)
    \/ \E rule \in OptSpecs :
         CallDeleteAllMatchingRulesFromChain(c, PreLoc[1], PreLoc[2], PreLoc[3], rule)
    \/ \E i \in 1..MaxOptRules, outcome \in Outcomes : CommandCompletes(c, i, outcome)
    \/ GetRuleFromChainListed(c)
    \/ DeleteRuleFromChainListed(c)
    \/ DeleteRuleFromChainDeleted(c)
    \/ DeleteAllListed(c)
    \/ DeleteAllSettled(c)

SpecOpt == InitOpt /\ [][NextOpt]_vars

\* what is left of a rule without its handle, its counters, its comment and
\* its index
Core(r) ==
  [family |-> r.family, table |-> r.table, chain |-> r.chain,
   expr |-> SelectSeq(r.expr, LAMBDA e : ~IsCounterExpr(e))]

\* the rules in sight: those of PREROUTING now and when c was called, and
\* the specification of c
RulesInSight(c) ==
  Range(fwChains[PreLoc].rules)
    \cup (IF pc[c] \in {"await", "returned"} THEN Range(ChainAtCall(c)) \cup {op[c].rule} ELSE {})

\* the rules of the chain, when c was called, that differ from the
\* specification of c at most in handle, counters, comment and index
SameCoreAtCall(c) == SelectSeq(ChainAtCall(c), LAMBDA r : Core(r) = Core(op[c].rule))

\* C28: areRulesEqual ignores the optional comment and index of a rule: rules
\* that differ only in comment, index, handle and counters are equal, and
\* getRuleFromChain, deleteRuleFromChain and deleteAllMatchingRulesFromChain
\* find and delete rules whatever comment and index they carry.
C28_CommentAndIndexIgnored ==
  \A c \in Callers :
    /\ \A r1, r2 \in RulesInSight(c) : Core(r1) = Core(r2) => areRulesEqual(r1, r2)
    /\ FoundOrNot(c)
         => IF SameCoreAtCall(c) # <<>>
            THEN ret[c] = createSuccess(SameCoreAtCall(c)[1])
            ELSE ret[c] = createFail("Rule not found")
    /\ (InDeleteRuleFromChain(c) /\ step[c] = 2)
         => /\ SameCoreAtCall(c) # <<>>
            /\ DeletesIssued(c) = <<DeleteCommand(c, SameCoreAtCall(c)[1].handle)>>
    /\ FannedOut(c)
         => OneDeletePerHandle(c, { r.handle : r \in Range(SameCoreAtCall(c)) })

\* the chain held the same rule twice, under two different comments; the
\* specification carries neither of them; deleteAllMatchingRulesFromChain has
\* deleted both
C28_Witness ==
  \E c \in Callers :
    /\ FannedOut(c)
    /\ pc[c] = "returned"
    /\ isSuccess(ret[c])
    /\ Len(ChainAtCall(c)) = 2
    /\ \A i \in 1..2 : "comment" \in DOMAIN ChainAtCall(c)[i]
    /\ ChainAtCall(c)[1].comment # ChainAtCall(c)[2].comment
    /\ "index" \in DOMAIN ChainAtCall(c)[1]
    /\ "index" \notin DOMAIN ChainAtCall(c)[2]
    /\ "comment" \notin DOMAIN op[c].rule
    /\ ChainNow(c) = <<>>

\* ========================================================================
\* areRulesEqual as an equivalence relation
\* ========================================================================

\* every expression list is held MaxCopies times, under different handles
MaxCopies == 2

\* Expression lists: three that differ in their counters only, two that are
\* the same dnat written with its keys in two orders, one of them with a
\* counter, an empty one and a list of two statements.
TriBodies ==
  << <<AcceptExpr>>,
     <<CounterExpr(0, 0), AcceptExpr>>,
     <<AcceptExpr, CounterExpr(1, 64)>>,
     <<DnatAddrPort("10.0.0.5", 80)>>,
     <<CounterExpr(1, 64), DnatAddrPort("10.0.0.5", 80)>>,
     <<DnatPortAddr("10.0.0.5", 80)>>,
     <<>>,
     <<DnatAddrPort("10.0.0.5", 80), AcceptExpr>> >>

\* the rules compared: each list in PREROUTING and POSTROUTING, under
\* MaxCopies handles
TriRules ==
  { NftRule(l[1], l[2], l[3], h, TriBodies[k]) :
      l \in NatLocs, h \in 1..MaxCopies, k \in 1..Len(TriBodies) }

\* a PREROUTING chain that holds each list MaxCopies times
TriChain ==
  [i \in 1..(Len(TriBodies) * MaxCopies) |->
     NftRule(PreLoc[1], PreLoc[2], PreLoc[3], i, TriBodies[((i - 1) % Len(TriBodies)) + 1])]

InitTri ==
  /\ ruleA \in TriRules
  /\ ruleB \in TriRules
  /\ eqPc = "start"
  /\ eqOut = [ab |-> FALSE, ba |-> FALSE]
  /\ fwTables = {}
  /\ fwChains = << >>
  /\ fwNextHandle = 1
  /\ nftInstalled = TRUE
  /\ ExIdle
  /\ CallersIdle({})

NextTri == CompareRules

SpecTri == InitTri /\ [][NextTri]_vars

\* C29: areRulesEqual is an equivalence relation on rule records: reflexive,
\* symmetric and transitive; hence two specifications that are equal select
\* the same rules of a chain for deleteAllMatchingRulesFromChain.
C29_EquivalenceRelation ==
  eqPc = "done"
    => /\ areRulesEqual(ruleA, ruleA)
       /\ ruleA = ruleB => eqOut.ab
       /\ eqOut.ab = eqOut.ba
       /\ \A ruleC \in TriRules :
            (eqOut.ab /\ areRulesEqual(ruleB, ruleC)) => areRulesEqual(ruleA, ruleC)
       /\ eqOut.ab => matchingRulesOf(TriChain, ruleA) = matchingRulesOf(TriChain, ruleB)

\* three different rules of one class, and a chain of which the two equal
\* specifications select the same rules: some, not all
C29_Witness ==
  /\ eqPc = "done"
  /\ eqOut.ab
  /\ ruleA.expr # ruleB.expr
  /\ ruleA.handle # ruleB.handle
  /\ \E ruleC \in TriRules :
       /\ ruleC.expr \notin {ruleA.expr, ruleB.expr}
       /\ areRulesEqual(ruleB, ruleC)
       /\ areRulesEqual(ruleA, ruleC)
  /\ Len(matchingRulesOf(TriChain, ruleA)) >= 2
  /\ Len(matchingRulesOf(TriChain, ruleA)) < Len(TriChain)
  /\ matchingRulesOf(TriChain, ruleA) = matchingRulesOf(TriChain, ruleB)

\* ========================================================================
\* A failed SNAT creation in createDoubleNatRule (checked under SpecPipe)
\* ========================================================================

\* createDoubleNatRule of c has returned the failure of its second step
SnatFailed(c) ==
  /\ op[c].name = "createDoubleNatRule"
  /\ pc[c] = "returned"
  /\ step[c] = 2
  /\ ~isSuccess(ret[c])

\* PREROUTING holds what it held when c was called and, after that, the DNAT
\* rule of c
DnatRuleRemains(c) ==
  /\ PreLoc \in DOMAIN fwAtCall[c]
  /\ LET before == fwAtCall[c][PreLoc].rules
         now == fwChains[PreLoc].rules
     IN /\ Len(now) = Len(before) + 1
        /\ SubSeq(now, 1, Len(before)) = before
        /\ now[Len(now)].expr = <<MatchDaddr(op[c].args[1]), CounterExpr(0, 0),
                                  DnatAddr(op[c].args[2])>>
        /\ now[Len(now)].handle = fwNextHandle - 1

\* C30: when in createDoubleNatRule the DNAT creation succeeds and the SNAT
\* creation fails, the operation returns the failure of the SNAT creation and
\* the DNAT rule stays in ip/nat/PREROUTING; createDoubleNatRule never issues
\* a delete command.
C30_DoubleNatNotRolledBack ==
  \A c \in Callers :
    op[c].name = "createDoubleNatRule"
    => /\ \A k \in 1..Len(issued[c]) : issued[c][k][4] = "add"
       /\ SnatFailed(c)
            => /\ issued[c] = ExpectedOfDoubleNat(c)
               /\ cmds[c][1].argv = ExpectedOfDoubleNat(c)[2]
               /\ ret[c] = cmds[c][1].res
               /\ DnatRuleRemains(c)
               /\ \A l \in DOMAIN fwChains :
                    l # PreLoc => (l \in DOMAIN fwAtCall[c] /\ fwChains[l] = fwAtCall[c][l])

\* The nat builder had stopped before it created POSTROUTING: the DNAT rule
\* was created, the SNAT creation ran and found no chain, and the DNAT rule
\* is in PREROUTING after the failure was returned.
C30_Witness ==
  \E c \in Callers :
    /\ SnatFailed(c)
    /\ PostLoc \notin DOMAIN fwChains
    /\ ret[c].error = "Error: No such file or directory: " \o CmdText(ExpectedOfDoubleNat(c)[2])
    /\ DnatRuleRemains(c)
====
